---- MODULE Spec2Model ----
(***************************************************************************)
(* Model of the conversational orchestration core of the household finance *)
(* application: the Intent Router (lib/agents/orchestrator.ts), the        *)
(* Onboarding Agent (lib/agents/onboarding.ts), the Chat and Insight       *)
(* Agents, and the context / onboarding-state store (lib/tools/context.ts).*)
(* One user is modelled: every table is keyed by user id, so a table is a  *)
(* set holding at most one row.                                            *)
(***************************************************************************)
EXTENDS Integers, Sequences, FiniteSets, TLC

(***************************************************************************)
(* Bounds of the model.                                                    *)
(***************************************************************************)
\* requests (turns) started over a behaviour
MaxTurns == 2
\* tool_use blocks in one model response
MaxTools == 2
\* entries of questions_asked
MaxQuestions == 1
\* elements of a list-valued context field
MaxItems == 2

(***************************************************************************)
(* State.                                                                  *)
(***************************************************************************)
VARIABLES
    user_context,       \* table user_context
    onboarding_state,   \* table onboarding_state
    conversations,      \* tables conversations and messages: one record per
                        \* conversation, its id is its position
    insights,           \* table insights
    req,                \* the requests in flight, one record per request slot
    turns,              \* requests started so far
    lastPersisted,      \* history: the state the last accepted saveOnboardingState wrote
    defaultContext,     \* the object DEFAULT_USER_CONTEXT of the running process,
                        \* which getUserContext hands out by reference
    lastOp,             \* history: the last call of a context function made directly
    transactions,       \* table transactions, in the order the store returns its rows
    summary             \* history: the last call of getSpendingSummary made directly

(***************************************************************************)
(* JSON values.  Every value has the same shape so that values of          *)
(* different JavaScript types can be compared: t is the type tag, a the    *)
(* elements of an array, s the text of a string or the label of an object. *)
(***************************************************************************)
Undef == [t |-> "undef", a |-> <<>>, s |-> ""]
Null == [t |-> "null", a |-> <<>>, s |-> ""]
Arr(l) == [t |-> "arr", a |-> l, s |-> ""]
Str(x) == [t |-> "str", a |-> <<>>, s |-> x]
Obj(x) == [t |-> "obj", a |-> <<>>, s |-> x]
\* an element of a list-valued field; item is "" when the element has no item key
Elem(i) == [id |-> i, item |-> i]

\* JavaScript truthiness, as used by the || defaults of the read paths
Falsy(v) == v.t \in {"undef", "null"} \/ (v.t = "str" /\ v.s = "")

ListFields == {"household_members", "deliberate_tradeoffs", "non_negotiables",
               "watch_patterns", "seasonal_patterns"}
Fields == ListFields \cup {"spending_targets", "context_narrative"}
RequiredFields == Fields \ {"seasonal_patterns"}

\* The empty object {}: no key is present.
EmptyObject == [f \in Fields |-> Undef]

DEFAULT_USER_CONTEXT ==
    [f \in Fields |->
        IF f \in ListFields THEN Arr(<<>>)
        ELSE IF f = "spending_targets" THEN Obj("pct35") ELSE Str("")]

\* Object.assign(target, source) and the object spread: keys of source overwrite
ObjectAssign(target, source) ==
    [f \in Fields |-> IF source[f].t # "undef" THEN source[f] ELSE target[f]]

HasAllRequired(c) == \A f \in RequiredFields : c[f].t # "undef"

(***************************************************************************)
(* Onboarding phases.                                                      *)
(***************************************************************************)
Phases == <<"intro", "household", "groceries", "transport", "subscriptions",
            "bnpl", "lifestyle", "synthesis", "complete">>
PhaseSet == {Phases[i] : i \in 1..Len(Phases)}
PhaseIdx(p) == CHOOSE i \in 1..Len(Phases) : Phases[i] = p

(***************************************************************************)
(* The store.                                                              *)
(***************************************************************************)
\* column defaults of user_context
ColumnDefault(f) ==
    IF f \in ListFields THEN Arr(<<>>)
    ELSE IF f = "spending_targets" THEN Obj("empty") ELSE Null

\* upsert on user_context: the keys the payload carries are written (a key
\* whose value is undefined is not serialised); a new row takes the column
\* defaults for the others, an existing row keeps them.
UpsertUserContext(table, payload) ==
    LET old == IF table = {} THEN [f \in Fields |-> ColumnDefault(f)]
               ELSE (CHOOSE row \in table : TRUE).cols
    IN {[cols |-> ObjectAssign(old, payload), onboarding_complete |-> TRUE]}

\* the CHECK constraint on onboarding_state.phase
PhaseCheck(p) == p \in PhaseSet

\* upsert on onboarding_state; the write is refused when the CHECK fails
UpsertOnboardingState(table, st) ==
    IF PhaseCheck(st.phase)
    THEN {[phase |-> st.phase, gathered_context |-> st.gathered_context,
           questions_asked |-> st.questions_asked]}
    ELSE table

\* getUserContext: without a row the shared default object itself is returned
getUserContext(table) ==
    IF table = {} THEN defaultContext
    ELSE LET row == (CHOOSE r \in table : TRUE).cols
         IN [f \in Fields |-> IF Falsy(row[f]) THEN DEFAULT_USER_CONTEXT[f] ELSE row[f]]

\* faulty variant of saveUserContext: seasonal_patterns is left out of the payload
saveUserContext_NoSeasonal(table, context) ==
    UpsertUserContext(table, [context EXCEPT !["seasonal_patterns"] = Undef])

saveUserContext(table, context) == UpsertUserContext(table, context)

\* The value of an update: kind "value" carries a JSON value v, kind "elem" an
\* object e (with or without an item key), kind "num" a number n.
UpdateValue(kind, v, e, n) == [kind |-> kind, v |-> v, e |-> e, n |-> n]
ValueOf(v) == UpdateValue("value", v, Elem(""), 0)
ElemOf(i) == UpdateValue("elem", Undef, Elem(i), 0)
NumOf(n) == UpdateValue("num", Undef, Elem(""), n)
\* no update parameters
NoParams == [field |-> "", action |-> "", value |-> NumOf(0)]
\* the value as a JSON value (set) and as an element of a list (append)
AsValue(u) == IF u.kind = "value" THEN u.v ELSE IF u.kind = "elem" THEN Obj(u.e.id) ELSE Obj("number")
AsElem(u) == IF u.kind = "elem" THEN u.e ELSE [id |-> "scalar", item |-> ""]

\* Array.prototype.splice(start, 1): a negative start counts from the end
Splice1(arr, start) ==
    LET n == Len(arr)
        k == IF start < 0 THEN (IF n + start < 0 THEN 0 ELSE n + start) ELSE start
    IN [i \in 1..(IF k < n THEN n - 1 ELSE n) |-> IF i <= k THEN arr[i] ELSE arr[i + 1]]

\* faulty variant of ApplyUpdate: remove by item drops the first match only
ApplyUpdate_RemoveFirst(current, p) ==
    LET cur == current[p.field]
    IN IF p.action = "set" THEN [current EXCEPT ![p.field] = AsValue(p.value)]
       ELSE IF p.action = "append" /\ cur.t = "arr"
       THEN [current EXCEPT ![p.field] = Arr(Append(cur.a, AsElem(p.value)))]
       ELSE IF p.action = "remove" /\ cur.t = "arr"
       THEN IF p.value.kind = "num"
            THEN [current EXCEPT ![p.field] = Arr(Splice1(cur.a, p.value.n))]
            ELSE IF /\ p.value.kind = "elem" /\ p.value.e.item # ""
                    /\ \E i \in 1..Len(cur.a) : cur.a[i].item = p.value.e.item
            THEN LET first == CHOOSE i \in 1..Len(cur.a) :
                                 /\ cur.a[i].item = p.value.e.item
                                 /\ \A j \in 1..(i - 1) : cur.a[j].item # p.value.e.item
                 IN [current EXCEPT ![p.field] = Arr(Splice1(cur.a, first - 1))]
            ELSE current
       ELSE current

\* faulty variant of ApplyUpdate: append puts the value in front
ApplyUpdate_Prepend(current, p) ==
    LET cur == current[p.field]
    IN IF p.action = "set" THEN [current EXCEPT ![p.field] = AsValue(p.value)]
       ELSE IF p.action = "append" /\ cur.t = "arr"
       THEN [current EXCEPT ![p.field] = Arr(<<AsElem(p.value)>> \o cur.a)]
       ELSE IF p.action = "remove" /\ cur.t = "arr"
       THEN IF p.value.kind = "num"
            THEN [current EXCEPT ![p.field] = Arr(Splice1(cur.a, p.value.n))]
            ELSE IF p.value.kind = "elem" /\ p.value.e.item # ""
            THEN [current EXCEPT ![p.field] =
                    Arr(SelectSeq(cur.a, LAMBDA x : x.item # p.value.e.item))]
            ELSE current
       ELSE current

\* updateUserContext, the part between the read and the write: the context
\* that is written back, from the context that was read
ApplyUpdate(current, p) ==
    LET cur == current[p.field]
    IN IF p.action = "set" THEN [current EXCEPT ![p.field] = AsValue(p.value)]
       ELSE IF p.action = "append" /\ cur.t = "arr"
       THEN [current EXCEPT ![p.field] = Arr(Append(cur.a, AsElem(p.value)))]
       ELSE IF p.action = "remove" /\ cur.t = "arr"
       THEN IF p.value.kind = "num"
            THEN [current EXCEPT ![p.field] = Arr(Splice1(cur.a, p.value.n))]
            ELSE IF p.value.kind = "elem" /\ p.value.e.item # ""
            THEN [current EXCEPT ![p.field] =
                    Arr(SelectSeq(cur.a, LAMBDA x : x.item # p.value.e.item))]
            ELSE current
       ELSE current

initialState == [phase |-> "intro", gathered_context |-> EmptyObject,
                 questions_asked |-> <<>>]

\* getOnboardingState: the state returned, and the table after the call
\* (a missing row is created with the initial state)
getOnboardingState(table) ==
    IF table = {} THEN initialState
    ELSE LET row == CHOOSE r \in table : TRUE
         IN [phase |-> row.phase, gathered_context |-> row.gathered_context,
             questions_asked |-> row.questions_asked]

InsertInitialState(table) ==
    IF table = {} THEN {initialState} ELSE table

saveOnboardingState(table, st) == UpsertOnboardingState(table, st)

(***************************************************************************)
(* Intent classification.  A message is a sequence of characters.          *)
(***************************************************************************)
UpperToLower ==
    "A" :> "a" @@ "B" :> "b" @@ "C" :> "c" @@ "D" :> "d" @@ "E" :> "e" @@
    "F" :> "f" @@ "G" :> "g" @@ "H" :> "h" @@ "I" :> "i" @@ "J" :> "j" @@
    "K" :> "k" @@ "L" :> "l" @@ "M" :> "m" @@ "N" :> "n" @@ "O" :> "o" @@
    "P" :> "p" @@ "Q" :> "q" @@ "R" :> "r" @@ "S" :> "s" @@ "T" :> "t" @@
    "U" :> "u" @@ "V" :> "v" @@ "W" :> "w" @@ "X" :> "x" @@ "Y" :> "y" @@
    "Z" :> "z"

toLowerCase(m) ==
    [i \in 1..Len(m) |-> IF m[i] \in DOMAIN UpperToLower THEN UpperToLower[m[i]] ELSE m[i]]

\* String.prototype.includes
includes(m, k) ==
    \E i \in 0..(Len(m) - Len(k)) : SubSeq(m, i + 1, i + Len(k)) = k

insightKeywords == <<
    <<"s","u","m","m","a","r","y">>,
    <<"h","o","w"," ","a","m"," ","i"," ","d","o","i","n","g">>,
    <<"u","p","d","a","t","e">>,
    <<"i","n","s","i","g","h","t">>,
    <<"o","v","e","r","v","i","e","w">>,
    <<"s","t","a","t","u","s">>,
    <<"h","o","w","'","s"," ","m","y"," ","s","p","e","n","d","i","n","g">>,
    <<"h","o","w"," ","i","s"," ","m","y"," ","s","p","e","n","d","i","n","g">>,
    <<"c","h","e","c","k"," ","i","n">>,
    <<"c","h","e","c","k","i","n">> >>

\* faulty variant of classifyIntent: the message is not lower-cased
classifyIntent_CaseSensitive(message) ==
    IF \E i \in 1..Len(insightKeywords) : includes(message, insightKeywords[i])
    THEN "insight" ELSE "chat"

classifyIntent(message) ==
    LET lowerMessage == toLowerCase(message)
    IN IF \E i \in 1..Len(insightKeywords) : includes(lowerMessage, insightKeywords[i])
       THEN "insight" ELSE "chat"

\* faulty variant of the route decision: an unfinished interview is not looked at
RouteDecision_IgnoresActive(isOnboarded, hasActiveOnboarding, message) ==
    IF ~isOnboarded THEN "onboarding"
    ELSE IF \E i \in 1..Len(insightKeywords) : includes(toLowerCase(message), insightKeywords[i])
    THEN "insight" ELSE "chat"

\* the route orchestrate takes, from what it read and the message
RouteDecision(isOnboarded, hasActiveOnboarding, message) ==
    IF ~isOnboarded \/ hasActiveOnboarding THEN "onboarding"
    ELSE classifyIntent(message)

\* the messages users send
Messages == { <<"M","y"," ","S","T","A","T","U","S">>,
              <<"h","i">> }

(***************************************************************************)
(* Requests and the initial state.                                         *)
(***************************************************************************)
vars == <<user_context, onboarding_state, conversations, insights, req, turns, lastPersisted,
          defaultContext, lastOp, transactions, summary>>

Reqs == {1, 2}

IdleReq ==
    [pc |-> "idle", userMessage |-> <<>>, conversationId |-> 0,
     userContext |-> "unread", onboardingState |-> "unread",
     isOnboarded |-> FALSE, hasActiveOnboarding |-> FALSE, route |-> "none",
     invoked |-> {},
     state |-> [phase |-> "", gatheredContext |-> EmptyObject, questionsAsked |-> <<>>],
     convId |-> 0, finalContext |-> {}, calls |-> <<>>, looped |-> FALSE,
     hasText |-> FALSE, appended |-> 0,
     complete |-> FALSE, context |-> {}, contextUpdated |-> FALSE,
     outConversationId |-> 0, response |-> <<>>, toolResults |-> <<>>,
     rawState |-> [phase |-> "", gathered_context |-> EmptyObject, questions_asked |-> <<>>],
     entry |-> "POST"]

\* getSpendingSummary has not been called directly yet
NoSummary == [called |-> FALSE, start_date |-> 0, end_date |-> 0, group_by |-> "",
              error |-> "", total |-> 0, breakdown |-> <<>>]

\* no context function has been called directly yet
NoOp == [name |-> "none", params |-> NoParams, context |-> EmptyObject,
         before |-> EmptyObject, tableBefore |-> {}, ok |-> FALSE]

Init ==
    /\ user_context = {}
    /\ onboarding_state = {}
    /\ conversations = <<>>
    /\ insights = <<>>
    /\ req = [r \in Reqs |-> IdleReq]
    /\ turns = 0
    /\ lastPersisted = {}
    /\ defaultContext = DEFAULT_USER_CONTEXT
    /\ lastOp = NoOp
    /\ transactions = <<>>
    /\ summary = NoSummary

(***************************************************************************)
(* POST /api/orchestrate -> orchestrate.                                   *)
(***************************************************************************)
\* a request arrives: message and optional conversation id (0: none)
Start(r, m, c) ==
    /\ req[r].pc \in {"idle", "done", "failed"}
    /\ turns < MaxTurns
    /\ c \in 0..Len(conversations)
    /\ req' = [req EXCEPT ![r] = [IdleReq EXCEPT !.pc = "orch_context",
                                    !.userMessage = m, !.conversationId = c]]
    /\ turns' = turns + 1
    /\ UNCHANGED <<user_context, onboarding_state, conversations, insights, lastPersisted, defaultContext, lastOp, transactions, summary>>

\* orchestrate, first read: the completion marker
OrchReadContext(r) ==
    /\ req[r].pc = "orch_context"
    /\ LET userContext == IF user_context = {} THEN "null"
                          ELSE IF \E row \in user_context : row.onboarding_complete THEN "true"
                          ELSE "false"
       IN req' = [req EXCEPT ![r].pc = "orch_onboarding",
                     ![r].userContext = userContext,
                     ![r].isOnboarded = (userContext = "true")]
    /\ UNCHANGED <<user_context, onboarding_state, conversations, insights, turns, lastPersisted, defaultContext, lastOp, transactions, summary>>

\* faulty variant of the second read: a request that names a conversation
\* stays with the Chat Agent
OrchReadOnboarding_ByConversation(r) ==
    /\ req[r].pc = "orch_onboarding"
    /\ LET onboardingState == IF onboarding_state = {} THEN "null"
                              ELSE (CHOOSE row \in onboarding_state : TRUE).phase
           active == onboardingState # "null" /\ onboardingState # "complete"
           route == IF req[r].isOnboarded /\ ~active /\ req[r].conversationId # 0
                    THEN "chat"
                    ELSE IF ~req[r].isOnboarded \/ active THEN "onboarding"
                    ELSE IF \E i \in 1..Len(insightKeywords) :
                                includes(toLowerCase(req[r].userMessage), insightKeywords[i])
                    THEN "insight" ELSE "chat"
       IN req' = [req EXCEPT ![r].onboardingState = onboardingState,
                             ![r].hasActiveOnboarding = active,
                             ![r].route = route,
                             ![r].pc = route]
    /\ UNCHANGED <<user_context, onboarding_state, conversations, insights, turns, lastPersisted, defaultContext, lastOp, transactions, summary>>

\* orchestrate, second read and the route decision
OrchReadOnboarding(r) ==
    /\ req[r].pc = "orch_onboarding"
    /\ LET onboardingState == IF onboarding_state = {} THEN "null"
                              ELSE (CHOOSE row \in onboarding_state : TRUE).phase
           active == onboardingState # "null" /\ onboardingState # "complete"
           route == RouteDecision(req[r].isOnboarded, active, req[r].userMessage)
       IN req' = [req EXCEPT ![r].onboardingState = onboardingState,
                             ![r].hasActiveOnboarding = active,
                             ![r].route = route,
                             ![r].pc = route]
    /\ UNCHANGED <<user_context, onboarding_state, conversations, insights, turns, lastPersisted, defaultContext, lastOp, transactions, summary>>

(***************************************************************************)
(* Tool calls a model response can carry.                                  *)
(***************************************************************************)
ToolCall(name, next_phase, object, question_asked, params) ==
    [name |-> name, next_phase |-> next_phase, object |-> object,
     question_asked |-> question_asked, params |-> params]

transition_phase(next_phase, gathered, question_asked) ==
    ToolCall("transition_phase", next_phase, gathered, question_asked, NoParams)
complete_onboarding(final_context) ==
    ToolCall("complete_onboarding", "", final_context, "", NoParams)
update_user_context(field, action, value) ==
    ToolCall("update_user_context", "", EmptyObject, "",
             [field |-> field, action |-> action, value |-> value])
get_transactions == ToolCall("get_transactions", "", EmptyObject, "", NoParams)
\* a tool name that no tool set carries
get_budget == ToolCall("get_budget", "", EmptyObject, "", NoParams)

\* objects a transition_phase call gathers
GatheredA == [EmptyObject EXCEPT !["household_members"] = Arr(<<Elem("ann")>>)]
GatheredB == [EmptyObject EXCEPT !["household_members"] = Arr(<<Elem("bob")>>),
                                 !["context_narrative"] = Str("saver")]
\* a complete UserContext, as complete_onboarding supplies it
FinalContext(who, narrative) ==
    [f \in Fields |->
        IF f = "household_members" THEN Arr(<<Elem(who)>>)
        ELSE IF f \in ListFields THEN Arr(<<>>)
        ELSE IF f = "spending_targets" THEN Obj("pct40") ELSE Str(narrative)]
FinalInputs == {FinalContext("ann", "final")}

\* a next_phase outside the nine phases
BogusPhase == "budget"

TransitionInputs ==
    { transition_phase("household", GatheredA, "who is in the household"),
      transition_phase("complete", EmptyObject, ""),
      transition_phase("intro", GatheredB, ""),
      transition_phase(BogusPhase, EmptyObject, "") }

UpdateInputs ==
    { update_user_context("non_negotiables", "append", ElemOf("coffee")),
      update_user_context("non_negotiables", "append", ElemOf("sport")) }

\* the sequences of at most n tool calls drawn from inputs
RECURSIVE ToolSeqs(_, _)
ToolSeqs(inputs, n) ==
    IF n = 0 THEN {<<>>}
    ELSE LET shorter == ToolSeqs(inputs, n - 1)
         IN shorter \cup {Append(q, t) : q \in {x \in shorter : Len(x) = n - 1}, t \in inputs}

(***************************************************************************)
(* The tool loop.  The callbacks of Promise.all(toolUseBlocks.map(...))    *)
(* each run up to their first await when map calls them, in the order of   *)
(* the blocks; their store calls complete afterwards, in any order.        *)
(***************************************************************************)
\* a tool call in flight: pc is the store call it waits for; phase is the
\* phase captured for the write; written is the context to write back;
\* ok is the success flag of its write
InFlight(tool, pc, phase) ==
    [tool |-> tool, pc |-> pc, phase |-> phase, written |-> EmptyObject, ok |-> FALSE,
     error |-> ""]

\* the tools executeTool knows; for any other name it returns an error object
ExecuteTools == {"get_transactions", "get_spending_summary", "get_recent_activity",
                 "get_user_context", "update_user_context", "add_merchant_mapping"}
executeToolError(toolName) ==
    IF toolName \in ExecuteTools THEN "" ELSE "Unknown tool"

\* the tools that query the transactions table
TransactionTools == {"get_transactions", "get_spending_summary", "get_recent_activity"}

\* a call handed to executeTool: updateUserContext and the transaction queries
\* go on to the store
Executed(tool) ==
    [InFlight(tool,
              IF tool.name = "update_user_context" THEN "read"
              ELSE IF tool.name \in TransactionTools THEN "query" ELSE "done",
              "")
        EXCEPT !.error = executeToolError(tool.name)]

\* the tool_result block built from a call that has returned: its content is
\* the error of the call, "" when there is none; its tool_use_id is its position
ToolResult(call) == [error |-> call.error]

\* the tool results pushed to the messages before the model is invoked again
ToolResults(q) ==
    IF q.pc = "tools" THEN [i \in 1..Len(q.calls) |-> ToolResult(q.calls[i])]
    ELSE q.toolResults

\* runOnboardingAgent, one callback up to its first await: acc is the agent's
\* state, its finalContext and the calls started so far
OnboardingCallback(acc, tool) ==
    IF tool.name = "transition_phase"
    THEN [state |-> [phase |-> tool.next_phase,
                     gatheredContext |-> ObjectAssign(acc.state.gatheredContext, tool.object),
                     questionsAsked |-> IF tool.question_asked # ""
                                        THEN Append(acc.state.questionsAsked, tool.question_asked)
                                        ELSE acc.state.questionsAsked],
          finalContext |-> acc.finalContext,
          calls |-> Append(acc.calls, InFlight(tool, "write", tool.next_phase))]
    ELSE IF tool.name = "complete_onboarding"
    THEN [state |-> [acc.state EXCEPT !.phase = "complete"],
          finalContext |-> {tool.object},
          calls |-> Append(acc.calls, InFlight(tool, "write", "complete"))]
    ELSE [acc EXCEPT !.calls = Append(acc.calls, Executed(tool))]

\* faulty variant of the Chat Agent's callback: the phase and completion tools
\* are handled as the Onboarding Agent handles them
ChatCallback_PhaseTools(acc, tool) ==
    IF tool.name = "transition_phase"
    THEN [state |-> [acc.state EXCEPT !.phase = tool.next_phase],
          finalContext |-> acc.finalContext,
          calls |-> Append(acc.calls, InFlight(tool, "write", tool.next_phase))]
    ELSE IF tool.name = "complete_onboarding"
    THEN [state |-> [acc.state EXCEPT !.phase = "complete"],
          finalContext |-> {tool.object},
          calls |-> Append(acc.calls, InFlight(tool, "write", "complete"))]
    ELSE [acc EXCEPT !.calls = Append(acc.calls, Executed(tool))]

\* runChatAgent, one callback up to its first await: every call goes to executeTool
ChatCallback(acc, tool) ==
    [acc EXCEPT !.calls = Append(acc.calls, Executed(tool))]

RECURSIVE StartCalls(_, _, _)
StartCalls(route, acc, tools) ==
    IF tools = <<>> THEN acc
    ELSE StartCalls(route,
                    IF route = "onboarding" THEN OnboardingCallback(acc, Head(tools))
                    ELSE ChatCallback(acc, Head(tools)),
                    Tail(tools))

\* the model is (re-)invoked: before the loop, or when every call of the last
\* response has returned
AtModel(r) ==
    \/ req[r].pc = "model"
    \/ req[r].pc = "tools" /\ \A i \in 1..Len(req[r].calls) : req[r].calls[i].pc = "done"

\* faulty variant of ModelToolUse: the loop runs its body once at most
ModelToolUse_Capped(r, tools) ==
    /\ AtModel(r)
    /\ ~req[r].looped
    /\ tools # <<>>
    /\ LET acc == StartCalls(req[r].route,
                             [state |-> req[r].state, finalContext |-> req[r].finalContext,
                              calls |-> <<>>],
                             tools)
       IN req' = [req EXCEPT ![r].pc = "tools", ![r].looped = TRUE,
                             ![r].state = acc.state,
                             ![r].finalContext = acc.finalContext,
                             ![r].calls = acc.calls,
                             ![r].toolResults = ToolResults(req[r])]
    /\ UNCHANGED <<user_context, onboarding_state, conversations, insights, turns, lastPersisted, defaultContext, lastOp, transactions, summary>>

\* the model answers with tool_use blocks
ModelToolUse(r, tools) ==
    /\ AtModel(r)
    /\ tools # <<>>
    /\ LET acc == StartCalls(req[r].route,
                             [state |-> req[r].state, finalContext |-> req[r].finalContext,
                              calls |-> <<>>],
                             tools)
       IN /\ Len(acc.state.questionsAsked) <= MaxQuestions
          /\ \A f \in ListFields :
                Len(getUserContext(user_context)[f].a)
                  + Cardinality({i \in 1..Len(tools) :
                        tools[i].name = "update_user_context" /\ tools[i].params.field = f
                        /\ tools[i].params.action = "append"}) <= MaxItems
          /\ req' = [req EXCEPT ![r].pc = "tools", ![r].looped = TRUE,
                                ![r].state = acc.state,
                                ![r].finalContext = acc.finalContext,
                                ![r].calls = acc.calls,
                                ![r].toolResults = ToolResults(req[r])]
    /\ UNCHANGED <<user_context, onboarding_state, conversations, insights, turns, lastPersisted, defaultContext, lastOp, transactions, summary>>

\* saveOnboardingState of a transition_phase or complete_onboarding call
\* reaches the store, which refuses a phase that fails the CHECK
ToolWriteOnboarding(r, i) ==
    /\ req[r].pc = "tools"
    /\ i \in 1..Len(req[r].calls)
    /\ req[r].calls[i].pc = "write"
    /\ req[r].calls[i].tool.name \in {"transition_phase", "complete_onboarding"}
    /\ LET call == req[r].calls[i]
           st == [phase |-> call.phase,
                  gathered_context |-> IF call.tool.name = "complete_onboarding"
                                       THEN call.tool.object
                                       ELSE req[r].state.gatheredContext,
                  questions_asked |-> req[r].state.questionsAsked]
           ok == PhaseCheck(st.phase)
       IN /\ onboarding_state' = IF ok THEN saveOnboardingState(onboarding_state, st)
                                 ELSE onboarding_state
          /\ lastPersisted' = IF ok THEN {st} ELSE lastPersisted
          /\ req' = [req EXCEPT ![r].calls[i].pc = "done", ![r].calls[i].ok = ok]
    /\ UNCHANGED <<user_context, conversations, insights, turns, defaultContext, lastOp, transactions, summary>>

\* updateUserContext, the read: getUserContext, then the update is applied
ToolReadContext(r, i) ==
    /\ req[r].pc = "tools"
    /\ i \in 1..Len(req[r].calls)
    /\ req[r].calls[i].pc = "read"
    /\ req' = [req EXCEPT ![r].calls[i].pc = "write",
                  ![r].calls[i].written =
                      ApplyUpdate(getUserContext(user_context), req[r].calls[i].tool.params)]
    /\ UNCHANGED <<user_context, onboarding_state, conversations, insights, turns, lastPersisted, defaultContext, lastOp, transactions, summary>>

\* faulty variant of ToolQuery: a refused query rejects, which ends the turn
ToolQuery_Throws(r, i, ok) ==
    /\ req[r].pc = "tools"
    /\ i \in 1..Len(req[r].calls)
    /\ req[r].calls[i].pc = "query"
    /\ req' = IF ok THEN [req EXCEPT ![r].calls[i].pc = "done", ![r].calls[i].ok = TRUE]
              ELSE [req EXCEPT ![r].pc = "failed", ![r].calls = <<>>]
    /\ UNCHANGED <<user_context, onboarding_state, conversations, insights, turns, lastPersisted, defaultContext, lastOp, transactions, summary>>

\* getTransactions, getSpendingSummary, getRecentActivity: the query returns;
\* when the store reports an error the function returns {error: message}
ToolQuery(r, i, ok) ==
    /\ req[r].pc = "tools"
    /\ i \in 1..Len(req[r].calls)
    /\ req[r].calls[i].pc = "query"
    /\ req' = [req EXCEPT ![r].calls[i].pc = "done", ![r].calls[i].ok = ok,
                          ![r].calls[i].error = IF ok THEN "" ELSE "store error"]
    /\ UNCHANGED <<user_context, onboarding_state, conversations, insights, turns, lastPersisted, defaultContext, lastOp, transactions, summary>>

\* faulty variant of the write of updateUserContext: the update is applied to
\* the row as it is when the write lands (an atomic read-modify-write)
ToolWriteContext_Atomic(r, i) ==
    /\ req[r].pc = "tools"
    /\ i \in 1..Len(req[r].calls)
    /\ req[r].calls[i].pc = "write"
    /\ req[r].calls[i].tool.name = "update_user_context"
    /\ user_context' = saveUserContext(user_context,
                          ApplyUpdate(getUserContext(user_context), req[r].calls[i].tool.params))
    /\ req' = [req EXCEPT ![r].calls[i].pc = "done", ![r].calls[i].ok = TRUE]
    /\ UNCHANGED <<onboarding_state, conversations, insights, turns, lastPersisted, defaultContext, lastOp, transactions, summary>>

\* updateUserContext, the write: saveUserContext
ToolWriteContext(r, i) ==
    /\ req[r].pc = "tools"
    /\ i \in 1..Len(req[r].calls)
    /\ req[r].calls[i].pc = "write"
    /\ req[r].calls[i].tool.name = "update_user_context"
    /\ user_context' = saveUserContext(user_context, req[r].calls[i].written)
    /\ req' = [req EXCEPT ![r].calls[i].pc = "done", ![r].calls[i].ok = TRUE]
    /\ UNCHANGED <<onboarding_state, conversations, insights, turns, lastPersisted, defaultContext, lastOp, transactions, summary>>

\* the model answers with a final response, with or without a text block
ModelFinal(r, hasText) ==
    /\ AtModel(r)
    /\ req' = [req EXCEPT ![r].pc = "save_user", ![r].hasText = hasText,
                          ![r].calls = <<>>, ![r].toolResults = ToolResults(req[r])]
    /\ UNCHANGED <<user_context, onboarding_state, conversations, insights, turns, lastPersisted, defaultContext, lastOp, transactions, summary>>

\* faulty variant of ModelThrows: the failure undoes the writes of the turn
ModelThrows_RollsBack(r) ==
    /\ AtModel(r)
    /\ req' = [req EXCEPT ![r].pc = "failed", ![r].calls = <<>>,
                          ![r].state = IdleReq.state, ![r].looped = FALSE,
                          ![r].toolResults = <<>>]
    /\ onboarding_state' = IF req[r].route = "onboarding" THEN {initialState}
                           ELSE onboarding_state
    /\ UNCHANGED <<user_context, conversations, insights, turns, lastPersisted, defaultContext, lastOp, transactions, summary>>

\* client.messages.create throws: the request fails
ModelThrows(r) ==
    /\ AtModel(r)
    /\ req' = [req EXCEPT ![r].pc = "failed", ![r].calls = <<>>,
                          ![r].state = IdleReq.state, ![r].looped = FALSE,
                          ![r].toolResults = <<>>]
    /\ UNCHANGED <<user_context, onboarding_state, conversations, insights, turns, lastPersisted, defaultContext, lastOp, transactions, summary>>

(***************************************************************************)
(* runOnboardingAgent.                                                     *)
(***************************************************************************)
\* getOnboardingState: load the state, creating the row when there is none
OnboardingLoadState(r) ==
    /\ req[r].pc = "onboarding"
    /\ LET raw == getOnboardingState(onboarding_state)
       IN req' = [req EXCEPT ![r].pc = "conversation",
                     ![r].invoked = @ \cup {"onboarding"},
                     ![r].rawState = raw,
                     ![r].state = [phase |-> raw.phase,
                                   gatheredContext |-> raw.gathered_context,
                                   questionsAsked |-> raw.questions_asked]]
    /\ onboarding_state' = InsertInitialState(onboarding_state)
    /\ UNCHANGED <<user_context, conversations, insights, turns, lastPersisted, defaultContext, lastOp, transactions, summary>>

\* load or create the conversation (both agents), then the first model call
Conversation(r) ==
    /\ req[r].pc = "conversation"
    /\ IF req[r].conversationId = 0
       THEN /\ conversations' = Append(conversations,
                                       [agent_type |-> req[r].route, messages |-> <<>>])
            /\ req' = [req EXCEPT ![r].pc = "model", ![r].convId = Len(conversations) + 1]
       ELSE /\ conversations' = conversations
            /\ req' = [req EXCEPT ![r].pc = "model", ![r].convId = req[r].conversationId]
    /\ UNCHANGED <<user_context, onboarding_state, insights, turns, lastPersisted, defaultContext, lastOp, transactions, summary>>

\* the insert into conversations returns no row: convId stays undefined
ConversationInsertFails(r) ==
    /\ req[r].pc = "conversation"
    /\ req[r].conversationId = 0
    /\ req' = [req EXCEPT ![r].pc = "model"]
    /\ UNCHANGED <<user_context, onboarding_state, conversations, insights, turns, lastPersisted, defaultContext, lastOp, transactions, summary>>

\* saveConversationMessages, first insert: the user message.  Without a convId
\* the Chat Agent skips the call and the Onboarding Agent's insert has no
\* conversation to go to.
SaveUserMessage(r) ==
    /\ req[r].pc = "save_user"
    /\ IF req[r].convId = 0
       THEN /\ conversations' = conversations
            /\ req' = [req EXCEPT ![r].pc = "save_assistant"]
       ELSE /\ conversations' = [conversations EXCEPT ![req[r].convId].messages = Append(@, "user")]
            /\ req' = [req EXCEPT ![r].pc = "save_assistant", ![r].appended = @ + 1]
    /\ UNCHANGED <<user_context, onboarding_state, insights, turns, lastPersisted, defaultContext, lastOp, transactions, summary>>

\* what runOnboardingAgent returns
OnboardingResult(q) ==
    LET isComplete == q.state.phase = "complete"
    IN [complete |-> isComplete,
        context |-> IF isComplete
                    THEN (IF q.finalContext # {} THEN q.finalContext
                          ELSE {q.state.gatheredContext})
                    ELSE {}]

\* saveConversationMessages, second insert: the assistant's text, if any; then
\* the agent returns to orchestrate
SaveAssistantMessage(r) ==
    /\ req[r].pc = "save_assistant"
    /\ conversations' = IF req[r].hasText /\ req[r].convId # 0
                        THEN [conversations EXCEPT ![req[r].convId].messages = Append(@, "assistant")]
                        ELSE conversations
    /\ LET res == IF req[r].route = "onboarding" THEN OnboardingResult(req[r])
                  ELSE [complete |-> FALSE, context |-> {}]
       IN req' = [req EXCEPT ![r].complete = res.complete,
                             ![r].context = res.context,
                             ![r].outConversationId = req[r].convId,
                             ![r].appended = IF req[r].hasText /\ req[r].convId # 0
                                             THEN @ + 1 ELSE @,
                             ![r].state = IdleReq.state,
                             ![r].looped = FALSE,
                             ![r].toolResults = <<>>,
                             ![r].pc = IF res.complete /\ res.context # {}
                                       THEN "orch_save" ELSE "done"]
    /\ UNCHANGED <<user_context, onboarding_state, insights, turns, lastPersisted, defaultContext, lastOp, transactions, summary>>

\* orchestrate: onboarding finished, save the context
OrchSaveContext(r) ==
    /\ req[r].pc = "orch_save"
    /\ user_context' = saveUserContext(user_context, CHOOSE c \in req[r].context : TRUE)
    /\ req' = [req EXCEPT ![r].pc = "done", ![r].contextUpdated = TRUE]
    /\ UNCHANGED <<onboarding_state, conversations, insights, turns, lastPersisted, defaultContext, lastOp, transactions, summary>>

(***************************************************************************)
(* runChatAgent: getUserContext for the system prompt, then as above.      *)
(***************************************************************************)
ChatLoadContext(r) ==
    /\ req[r].pc = "chat"
    /\ req' = [req EXCEPT ![r].pc = "conversation", ![r].invoked = @ \cup {"chat"}]
    /\ UNCHANGED <<user_context, onboarding_state, conversations, insights, turns, lastPersisted, defaultContext, lastOp, transactions, summary>>

(***************************************************************************)
(* runInsightAgent.                                                        *)
(***************************************************************************)
\* faulty variant of determineInsightPriority: the buckets are tried from the
\* lowest priority upwards
determineInsightPriority_LowestFirst(text) ==
    LET lowerText == toLowerCase(text)
    IN IF \/ includes(lowerText, <<"o","n"," ","t","r","a","c","k">>)
          \/ includes(lowerText, <<"l","o","o","k","i","n","g"," ","g","o","o","d">>)
          \/ includes(lowerText, <<"w","e","l","l"," ","d","o","n","e">>)
          \/ includes(lowerText, <<"a","l","l"," ","g","o","o","d">>)
       THEN "affirmation"
       ELSE IF \/ includes(lowerText, <<"p","a","t","t","e","r","n">>)
               \/ includes(lowerText, <<"n","o","t","i","c","e","d">>)
       THEN "watch"
       ELSE IF \/ includes(lowerText, <<"o","n"," ","p","a","c","e"," ","t","o">>)
               \/ includes(lowerText, <<"h","e","a","d","i","n","g"," ","t","o","w","a","r","d","s">>)
               \/ includes(lowerText, <<"w","a","r","n","i","n","g">>)
               \/ includes(lowerText, <<"w","a","t","c","h"," ","o","u","t">>)
       THEN "warning"
       ELSE IF \/ includes(lowerText, <<"o","v","e","r"," ","b","u","d","g","e","t">>)
               \/ includes(lowerText, <<"e","x","c","e","e","d","e","d">>)
               \/ includes(lowerText, <<"a","l","e","r","t">>)
               \/ includes(lowerText, <<"c","o","n","c","e","r","n","i","n","g">>)
       THEN "alert"
       ELSE "observation"

determineInsightPriority(text) ==
    LET lowerText == toLowerCase(text)
    IN IF \/ includes(lowerText, <<"o","v","e","r"," ","b","u","d","g","e","t">>)
          \/ includes(lowerText, <<"e","x","c","e","e","d","e","d">>)
          \/ includes(lowerText, <<"a","l","e","r","t">>)
          \/ includes(lowerText, <<"c","o","n","c","e","r","n","i","n","g">>)
       THEN "alert"
       ELSE IF \/ includes(lowerText, <<"o","n"," ","p","a","c","e"," ","t","o">>)
               \/ includes(lowerText, <<"h","e","a","d","i","n","g"," ","t","o","w","a","r","d","s">>)
               \/ includes(lowerText, <<"w","a","r","n","i","n","g">>)
               \/ includes(lowerText, <<"w","a","t","c","h"," ","o","u","t">>)
       THEN "warning"
       ELSE IF \/ includes(lowerText, <<"p","a","t","t","e","r","n">>)
               \/ includes(lowerText, <<"n","o","t","i","c","e","d">>)
       THEN "watch"
       ELSE IF \/ includes(lowerText, <<"o","n"," ","t","r","a","c","k">>)
               \/ includes(lowerText, <<"l","o","o","k","i","n","g"," ","g","o","o","d">>)
               \/ includes(lowerText, <<"w","e","l","l"," ","d","o","n","e">>)
               \/ includes(lowerText, <<"a","l","l"," ","g","o","o","d">>)
       THEN "affirmation"
       ELSE "observation"

\* texts the model returns as an insight
InsightTexts == { <<"O","n"," ","t","r","a","c","k">>, <<"s","t","e","a","d","y">> }

\* the single model call succeeds and the insight is stored
InsightRun(r, text) ==
    /\ req[r].pc = "insight"
    /\ insights' = Append(insights, [content |-> text,
                                     priority |-> determineInsightPriority(text),
                                     data_snapshot |-> "snapshot"])
    /\ req' = [req EXCEPT ![r].pc = "done", ![r].invoked = @ \cup {"insight"},
                          ![r].response = text]
    /\ UNCHANGED <<user_context, onboarding_state, conversations, turns, lastPersisted, defaultContext, lastOp, transactions, summary>>

\* the single model call succeeds and the store refuses the insert of
\* storeInsight, whose outcome is not looked at: the text is returned
InsightStoreFails(r, text) ==
    /\ req[r].pc = "insight"
    /\ req' = [req EXCEPT ![r].pc = "done", ![r].invoked = @ \cup {"insight"},
                          ![r].response = text]
    /\ UNCHANGED <<user_context, onboarding_state, conversations, insights, turns, lastPersisted, defaultContext, lastOp, transactions, summary>>

\* faulty variant of InsightThrows: a partial insight is stored before the
\* failure reaches the caller
InsightThrows_StoresPartial(r) ==
    /\ req[r].pc = "insight"
    /\ insights' = Append(insights, [content |-> <<>>, priority |-> "observation",
                                     data_snapshot |-> "snapshot"])
    /\ req' = [req EXCEPT ![r].pc = "failed", ![r].invoked = @ \cup {"insight"}]
    /\ UNCHANGED <<user_context, onboarding_state, conversations, turns, lastPersisted, defaultContext, lastOp, transactions, summary>>

\* the model call throws: nothing is stored
InsightThrows(r) ==
    /\ req[r].pc = "insight"
    /\ req' = [req EXCEPT ![r].pc = "failed", ![r].invoked = @ \cup {"insight"}]
    /\ UNCHANGED <<user_context, onboarding_state, conversations, insights, turns, lastPersisted, defaultContext, lastOp, transactions, summary>>

(***************************************************************************)
(* Specification: the life of one user, one request at a time; the model   *)
(* calls the phase and completion tools.                                   *)
(***************************************************************************)
OnboardingInputs ==
    TransitionInputs \cup {complete_onboarding(F) : F \in FinalInputs}

Orchestrate(r) ==
    \/ \E m \in Messages, c \in 0..MaxTurns : Start(r, m, c)
    \/ OrchReadContext(r)
    \/ OrchReadOnboarding(r)
    \/ OrchSaveContext(r)

Agents(r) ==
    \/ OnboardingLoadState(r)
    \/ ChatLoadContext(r)
    \/ Conversation(r)
    \/ \E hasText \in BOOLEAN : ModelFinal(r, hasText)
    \/ ModelThrows(r)
    \/ SaveUserMessage(r)
    \/ SaveAssistantMessage(r)
    \/ \E text \in InsightTexts : InsightRun(r, text)
    \/ InsightThrows(r)

Next ==
    \/ Orchestrate(1)
    \/ Agents(1)
    \/ \E tools \in ToolSeqs(OnboardingInputs, MaxTools) : ModelToolUse(1, tools)
    \/ \E i \in 1..MaxTools : ToolWriteOnboarding(1, i)

Spec == Init /\ [][Next]_vars

(***************************************************************************)
(* Properties of the onboarding state machine, checked under Spec.         *)
(***************************************************************************)
\* the agent's in-memory state of request r, as an onboarding_state row
MemoryRow(r) ==
    [phase |-> req[r].state.phase,
     gathered_context |-> req[r].state.gatheredContext,
     questions_asked |-> req[r].state.questionsAsked]

InToolLoop(r) == req[r].route = "onboarding" /\ req[r].pc \in {"model", "tools"}

\* C1 (Onboarding monotonicity): the persisted phase is always one of the
\* nine phases and no step moves it backward in the fixed order.
C1_PhaseNeverMovesBackward ==
    [][\A old \in onboarding_state, new \in onboarding_state' :
          /\ new.phase \in PhaseSet
          /\ PhaseIdx(new.phase) >= PhaseIdx(old.phase)]_vars

\* the part of C1 the store enforces: the persisted phase is one of the nine
C1_PersistedPhaseIsDefined ==
    \A row \in onboarding_state : row.phase \in PhaseSet

\* C2 (complete is terminal): once the persisted phase is complete no step
\* changes it, and a tool loop whose in-memory phase is complete keeps it.
C2_CompleteIsTerminal ==
    [][/\ (\E old \in onboarding_state : old.phase = "complete")
            => (\A new \in onboarding_state' : new.phase = "complete")
       /\ \A r \in Reqs :
            (InToolLoop(r) /\ req[r].state.phase = "complete" /\ req'[r].pc = "tools")
                => req'[r].state.phase = "complete"]_vars

\* C4 (Completion contract): a request in which complete_onboarding was called
\* with final_context F ends with the persisted phase complete, the stored
\* context equal to F, the completion marker true and contextUpdated = true.
C4_CompletionContract ==
    \A r \in Reqs :
        (req[r].pc = "done" /\ req[r].route = "onboarding" /\ req[r].finalContext # {})
            => /\ \A row \in onboarding_state : row.phase = "complete"
               /\ \E row \in user_context : row.onboarding_complete
               /\ {getUserContext(user_context)} = req[r].finalContext
               /\ req[r].contextUpdated

\* C5: the context orchestrate hands to saveUserContext when a turn reports
\* complete carries every required field.
C5_SavedContextIsComplete ==
    \A r \in Reqs :
        req[r].pc = "orch_save" => \A c \in req[r].context : HasAllRequired(c)

\* C6 (Resume semantics): when the tool loop of a turn has ended without
\* complete_onboarding, the persisted row holds the phase the turn reached, with
\* the gathered context and the questions the turn accumulated, so that the
\* next turn resumes with nothing abandoned.
C6_ResumeFromLastPhaseReached ==
    \A r \in Reqs :
        (/\ req[r].route = "onboarding" /\ req[r].pc \in {"save_user", "save_assistant"}
         /\ req[r].finalContext = {})
            => onboarding_state = {MemoryRow(r)}

\* the part of C6 that holds: the row stays as the last accepted write left it,
\* and a turn of the Onboarding Agent starts from exactly these values
C6_Resume ==
    /\ lastPersisted # {} => onboarding_state = lastPersisted
    /\ \A r \in Reqs :
         (req[r].route = "onboarding" /\ req[r].pc = "conversation" /\ lastPersisted # {})
            => {MemoryRow(r)} = lastPersisted

\* a later turn resumes at household with what the earlier turn gathered
C6_Witness ==
    /\ turns = 2
    /\ req[1].route = "onboarding" /\ req[1].pc = "conversation"
    /\ req[1].state.phase = "household"
    /\ req[1].state.gatheredContext = GatheredA
    /\ Len(req[1].state.questionsAsked) = 1

\* C7 (Persist-before-continue): whenever the model is re-invoked in the
\* onboarding tool loop, the persisted row equals the in-memory state.
C7_PersistedEqualsMemory ==
    \A r \in Reqs :
        (req[r].route = "onboarding" /\ req[r].looped /\ AtModel(r))
            => onboarding_state = {MemoryRow(r)}

\* C24 (Partial progress is durable): while a turn of the Onboarding Agent is
\* in its tool loop, where a cut-off would stop it, and after a model call of
\* the loop has failed, the persisted state is what the last completed
\* transition_phase or complete_onboarding call wrote and the turn has
\* appended no message; the failing step itself changes no table, returns no
\* result and ends the request as a failure.
C24_PartialProgressIsDurable ==
    /\ [](\A r \in Reqs :
            (req[r].route = "onboarding" /\ (InToolLoop(r) \/ req[r].pc = "failed"))
                => /\ req[r].appended = 0
                   /\ lastPersisted # {} => onboarding_state = lastPersisted)
    /\ [][\A r \in Reqs :
             (InToolLoop(r) /\ req'[r].pc = "failed")
                => /\ onboarding_state' = onboarding_state
                   /\ user_context' = user_context
                   /\ conversations' = conversations
                   /\ ~req'[r].complete /\ ~req'[r].contextUpdated
                   /\ req'[r].outConversationId = 0]_vars

\* the model call after a completed transition to household failed: the row
\* holds household with what was gathered, the new conversation is empty
C24_Witness ==
    /\ req[1].route = "onboarding" /\ req[1].pc = "failed"
    /\ onboarding_state = {[phase |-> "household", gathered_context |-> GatheredA,
                            questions_asked |-> <<"who is in the household">>]}
    /\ req[1].convId # 0 /\ conversations[req[1].convId].messages = <<>>

\* the turn of request r found phase complete persisted with a final context
\* and no true completion marker: an earlier request ended between the write
\* of complete_onboarding and the Router's save
Healing(r) ==
    /\ req[r].route = "onboarding"
    /\ req[r].userContext # "true"
    /\ req[r].rawState.phase = "complete"
    /\ req[r].rawState.gathered_context \in FinalInputs

\* C28 (Completion self-heals): a turn that finds phase complete persisted by
\* complete_onboarding and the completion marker not true reports complete
\* with the final context supplied earlier; the Router saves exactly that
\* context and sets the marker, and saving it once more changes nothing.
C28_CompletionSelfHeals ==
    \A r \in Reqs :
        (Healing(r) /\ req[r].pc = "done")
            => /\ req[r].complete /\ req[r].contextUpdated
               /\ req[r].context = {req[r].rawState.gathered_context}
               /\ \E row \in user_context : row.onboarding_complete
               /\ getUserContext(user_context) = req[r].rawState.gathered_context
               /\ saveUserContext(user_context, req[r].rawState.gathered_context) = user_context

\* the last response of request r carried more than one state-changing call,
\* and the store accepted the write of each
SeveralStateChanges(r) ==
    /\ req[r].route = "onboarding" /\ req[r].pc = "tools"
    /\ Len(req[r].calls) > 1
    /\ \A i \in 1..Len(req[r].calls) :
          /\ req[r].calls[i].tool.name \in {"transition_phase", "complete_onboarding"}
          /\ req[r].calls[i].pc = "done" /\ req[r].calls[i].ok

\* C29: when a response carries more than one state-changing onboarding call
\* and the turn ends after it, the persisted row has the phase, the
\* gathered_context and the questions_asked of the agent's in-memory state,
\* in whatever order the writes of the calls landed.
C29_ConcurrentCallsAgreeWithMemory ==
    [][\A r \in Reqs :
          (SeveralStateChanges(r) /\ req'[r].pc = "save_user")
            => onboarding_state = {MemoryRow(r)}]_vars

\* the case of two transition_phase calls alone
C29_TwoTransitions ==
    [][\A r \in Reqs :
          (/\ SeveralStateChanges(r) /\ req'[r].pc = "save_user"
           /\ \A i \in 1..Len(req[r].calls) : req[r].calls[i].tool.name = "transition_phase")
            => onboarding_state = {MemoryRow(r)}]_vars

(***************************************************************************)
(* Specification of the Intent Router: two requests of the user, in any    *)
(* interleaving, from every persisted state orchestrate can find.  A       *)
(* user_context row always carries a true marker (saveUserContext is its   *)
(* only writer); a user with a context row and no onboarding_state row is  *)
(* what startOnboarding leaves behind.                                     *)
(***************************************************************************)
RouterMessages ==
    Messages \cup { <<"s","t","a","t","s">>,
                    <<"C","h","e","c","k","i","n","g">> }

InitRouter ==
    /\ user_context \in {{}, {[cols |-> FinalContext("ann", "final"), onboarding_complete |-> TRUE]}}
    /\ onboarding_state \in
         {{}} \cup {{[initialState EXCEPT !.phase = p]} : p \in PhaseSet}
    /\ conversations = <<[agent_type |-> "chat", messages |-> <<"user", "assistant">>]>>
    /\ insights = <<>>
    /\ req = [r \in Reqs |-> IdleReq]
    /\ turns = 0
    /\ lastPersisted = {}
    /\ defaultContext = DEFAULT_USER_CONTEXT
    /\ lastOp = NoOp
    /\ transactions = <<>>
    /\ summary = NoSummary

NextRouter ==
    \E r \in Reqs :
        \/ \E m \in RouterMessages, c \in 0..MaxTurns : Start(r, m, c)
        \/ OrchReadContext(r)
        \/ OrchReadOnboarding(r)
        \/ OnboardingLoadState(r)
        \/ ChatLoadContext(r)
        \/ Conversation(r)
        \/ \E hasText \in BOOLEAN : ModelFinal(r, hasText)
        \/ SaveUserMessage(r)
        \/ SaveAssistantMessage(r)
        \/ \E text \in InsightTexts : InsightRun(r, text)
        \/ InsightThrows(r)

SpecRouter == InitRouter /\ [][NextRouter]_vars

Routed(r) == req[r].route # "none"

\* what orchestrate found: no true completion marker, or an onboarding-state
\* record whose phase is not complete
NeedsOnboardingAgent(r) ==
    \/ req[r].userContext # "true"
    \/ req[r].onboardingState \notin {"null", "complete"}

\* C3 (Router step 1): a request that found no true completion marker, or an
\* onboarding-state record with a phase other than complete, is routed to
\* onboarding whatever its message, and runs neither the Chat nor the
\* Insight Agent.
C3_RouterStep1 ==
    \A r \in Reqs :
        (Routed(r) /\ NeedsOnboardingAgent(r))
            => /\ req[r].route = "onboarding"
               /\ req[r].invoked \subseteq {"onboarding"}

\* an onboarded user with an unfinished interview asks for the status and is
\* answered by the Onboarding Agent
C3_Witness ==
    /\ req[1].pc = "done" /\ req[1].route = "onboarding"
    /\ req[1].userContext = "true" /\ req[1].onboardingState = "household"
    /\ req[1].userMessage = <<"M","y"," ","S","T","A","T","U","S">>
    /\ req[1].invoked = {"onboarding"}

\* the message, lower-cased, has a keyword somewhere in it
ContainsKeyword(m) ==
    \E k \in 1..Len(insightKeywords) :
        \E i \in 1..Len(m) :
            /\ i + Len(insightKeywords[k]) - 1 <= Len(m)
            /\ \A j \in 1..Len(insightKeywords[k]) :
                  LET c == m[i + j - 1]
                  IN insightKeywords[k][j] = (IF c \in DOMAIN UpperToLower THEN UpperToLower[c] ELSE c)

\* C8 (Router step 2): for an onboarded user without an unfinished interview
\* the route is insight exactly when the lower-cased message contains a
\* keyword, and chat otherwise; only the agent of the route runs; the insight
\* route returns no conversationId and appends no conversation message.
C8_RouterStep2 ==
    \A r \in Reqs :
        (Routed(r) /\ ~NeedsOnboardingAgent(r))
            => /\ req[r].route = (IF ContainsKeyword(req[r].userMessage) THEN "insight" ELSE "chat")
               /\ req[r].invoked \subseteq {req[r].route}
               /\ req[r].pc = "done" => req[r].invoked = {req[r].route}
               /\ req[r].route = "insight"
                    => /\ req[r].outConversationId = 0
                       /\ req[r].convId = 0
                       /\ req[r].appended = 0

\* a message with the keyword in capitals went to the Insight Agent, and one
\* with a keyword inside a longer word too, while the other request went to chat
C8_Witness ==
    /\ req[1].pc = "done" /\ req[1].route = "insight"
    /\ req[1].userMessage = <<"C","h","e","c","k","i","n","g">>
    /\ Len(insights) = 1
    /\ req[2].pc = "done" /\ req[2].route = "chat" /\ req[2].appended = 2
    /\ req[2].userMessage = <<"s","t","a","t","s">>

\* C9 (Router determinism): two requests with the same message that found the
\* same completion marker and the same onboarding-state record take the same route.
C9_RouterDeterminism ==
    \A r1, r2 \in Reqs :
        (/\ Routed(r1) /\ Routed(r2)
         /\ req[r1].userMessage = req[r2].userMessage
         /\ req[r1].userContext = req[r2].userContext
         /\ req[r1].onboardingState = req[r2].onboardingState)
            => req[r1].route = req[r2].route

\* two requests with the same message, one on an existing conversation and one
\* without, the second after the first has stored messages, take the same route
C9_Witness ==
    /\ req[1].pc = "done" /\ Routed(2)
    /\ req[1].userMessage = req[2].userMessage
    /\ req[1].userContext = req[2].userContext
    /\ req[1].onboardingState = req[2].onboardingState
    /\ req[1].conversationId # req[2].conversationId
    /\ req[1].route = "chat" /\ req[2].route = "chat"
    /\ req[1].appended > 0

(***************************************************************************)
(* Specification of concurrent context updates: an onboarded user sends    *)
(* chat messages from two sessions; the model calls update_user_context.   *)
(* The initial state is the one a completed interview leaves.              *)
(***************************************************************************)
OnboardedRow == [phase |-> "complete", gathered_context |-> FinalContext("ann", "final"),
                 questions_asked |-> <<>>]

InitRace ==
    /\ user_context = {[cols |-> FinalContext("ann", "final"), onboarding_complete |-> TRUE]}
    /\ onboarding_state = {OnboardedRow}
    /\ conversations = <<[agent_type |-> "onboarding", messages |-> <<"user", "assistant">>]>>
    /\ insights = <<>>
    /\ req = [r \in Reqs |-> IdleReq]
    /\ turns = 0
    /\ lastPersisted = {OnboardedRow}
    /\ defaultContext = DEFAULT_USER_CONTEXT
    /\ lastOp = NoOp
    /\ transactions = <<>>
    /\ summary = NoSummary

NextRace ==
    \E r \in Reqs :
        \/ Start(r, <<"h","i">>, 1)
        \/ OrchReadContext(r)
        \/ OrchReadOnboarding(r)
        \/ ChatLoadContext(r)
        \/ Conversation(r)
        \/ \E tools \in ToolSeqs(UpdateInputs, MaxTools) : ModelToolUse(r, tools)
        \/ \E i \in 1..MaxTools : ToolReadContext(r, i)
        \/ \E i \in 1..MaxTools : ToolWriteContext(r, i)
        \/ ModelFinal(r, TRUE)
        \/ SaveUserMessage(r)
        \/ SaveAssistantMessage(r)

SpecRace == InitRace /\ [][NextRace]_vars

\* the update_user_context calls in flight: request and position
UpdateCalls ==
    {c \in Reqs \X (1..MaxTools) :
        /\ c[2] <= Len(req[c[1]].calls)
        /\ req[c[1]].calls[c[2]].tool.name = "update_user_context"}
CallAt(c) == req[c[1]].calls[c[2]]
\* the list an append call read, and the element it appends
ReadList(c) == SubSeq(CallAt(c).written[CallAt(c).tool.params.field].a, 1,
                      Len(CallAt(c).written[CallAt(c).tool.params.field].a) - 1)
Appended(c) == CallAt(c).tool.params.value.e

\* two appends of different elements to the same list that read the same
\* version of the context
SameVersionAppends(a, b) ==
    /\ a # b
    /\ CallAt(a).tool.params.action = "append" /\ CallAt(b).tool.params.action = "append"
    /\ CallAt(a).tool.params.field = CallAt(b).tool.params.field
    /\ CallAt(a).pc \in {"write", "done"} /\ CallAt(b).pc \in {"write", "done"}
    /\ ReadList(a) = ReadList(b)
    /\ Appended(a) # Appended(b)

\* C10 (Lost-update race): when the write of an append lands after the write
\* of another append that read the same version, the stored list is the list
\* both read followed by the later element alone: the earlier update is lost.
C10_LostUpdate ==
    [][\A a \in UpdateCalls, b \in UpdateCalls :
          (/\ SameVersionAppends(a, b)
           /\ CallAt(a).pc = "done" /\ CallAt(b).pc = "write"
           /\ req'[b[1]].calls[b[2]].pc = "done")
            => LET f == CallAt(b).tool.params.field
               IN getUserContext(user_context')[f].a = Append(ReadList(b), Appended(b))]_vars

\* two sessions appended different elements and the stored list holds one
C10_Witness ==
    /\ <<1, 1>> \in UpdateCalls /\ <<2, 1>> \in UpdateCalls
    /\ SameVersionAppends(<<1, 1>>, <<2, 1>>)
    /\ CallAt(<<1, 1>>).pc = "done" /\ CallAt(<<2, 1>>).pc = "done"
    /\ Len(getUserContext(user_context)["non_negotiables"].a) = 1

\* the tools offered to the model by the Chat Agent: transactionTools, contextTools
ChatTools == {"get_transactions", "get_spending_summary", "get_recent_activity",
              "get_user_context", "update_user_context", "add_merchant_mapping"}

\* C18: the phase and completion tools are not in the Chat Agent's tool set;
\* no step of a request routed to the Chat Agent changes the
\* onboarding_state table, and a transition_phase or complete_onboarding call
\* of the model in such a request is answered at once with the unknown-tool
\* error.
C18_ChatLeavesOnboardingState ==
    [][\A r \in Reqs :
          req[r].route = "chat"
            => /\ ChatTools \cap {"transition_phase", "complete_onboarding"} = {}
               /\ onboarding_state' = onboarding_state
               /\ req'[r].route = "chat"
                    => \A i \in 1..Len(req'[r].calls) :
                          req'[r].calls[i].tool.name \in {"transition_phase", "complete_onboarding"}
                            => /\ req'[r].calls[i].pc = "done"
                               /\ req'[r].calls[i].error = "Unknown tool"]_vars

\* the Chat Agent has answered a transition_phase call back to intro, and the
\* persisted phase is still complete
C18_Witness ==
    /\ req[1].route = "chat" /\ req[1].pc = "tools"
    /\ Len(req[1].calls) > 0
    /\ req[1].calls[1].tool = transition_phase("intro", GatheredB, "")
    /\ req[1].calls[1].error = "Unknown tool"
    /\ \E row \in onboarding_state : row.phase = "complete"

(***************************************************************************)
(* Properties of the conversation log, checked under Spec.                 *)
(***************************************************************************)
\* roles alternate, starting with user and ending with assistant
Alternates(messages) ==
    /\ Len(messages) % 2 = 0
    /\ \A i \in 1..Len(messages) :
          messages[i] = (IF i % 2 = 1 THEN "user" ELSE "assistant")

\* a turn is between its two inserts into conversation c
Saving(c) == \E r \in Reqs : req[r].convId = c /\ req[r].pc = "save_assistant"

\* C11 (Conversation alternation): after any sequence of completed turns on a
\* conversation its persisted messages alternate user, assistant, ...: every
\* turn appended one user message followed by one assistant message.
C11_ConversationAlternation ==
    \A c \in 1..Len(conversations) :
        ~Saving(c) => Alternates(conversations[c].messages)

(***************************************************************************)
(* Specification of the context functions called one after the other       *)
(* (get_user_context and update_user_context through executeTool,          *)
(* saveUserContext from orchestrate), for a user with or without a stored  *)
(* record.  A write may be refused by the store.                           *)
(***************************************************************************)
\* context function calls over a behaviour
MaxOps == 2

\* elements of non_negotiables: two with the same item, one without an item key
Latte == [id |-> "latte", item |-> "coffee"]
NoItem == [id |-> "ann", item |-> ""]

StoredList == <<Elem("sport"), Elem("coffee"), NoItem, Latte, Elem("tea")>>

\* complete, well-typed UserContext values
Contexts ==
    { FinalContext("ann", "final"),
      [FinalContext("bob", "") EXCEPT !["non_negotiables"] = Arr(<<Elem("coffee")>>)],
      [DEFAULT_USER_CONTEXT EXCEPT !["seasonal_patterns"] = Arr(<<Elem("xmas")>>)] }

UpdateFields == {"non_negotiables", "spending_targets", "context_narrative"}
UpdateActions == {"set", "append", "remove"}
UpdateValues ==
    { ElemOf("coffee"), ElemOf("sport"), UpdateValue("elem", Undef, Latte, 0),
      NumOf(0), NumOf(1), NumOf(-1), ValueOf(Str("note")), ValueOf(Null),
      ValueOf(Arr(<<Elem("tea")>>)) }
UpdateParams ==
    { [field |-> f, action |-> a, value |-> v] :
        f \in UpdateFields, a \in UpdateActions, v \in UpdateValues }

\* faulty variant of the in-place effects: append pushes onto the list read
ReadObjectAfter_Push(current, p) ==
    IF p.action = "append" /\ current[p.field].t = "arr"
    THEN [current EXCEPT ![p.field] = Arr(Append(current[p.field].a, AsElem(p.value)))]
    ELSE IF p.action = "remove" /\ current[p.field].t = "arr" /\ p.value.kind = "num"
    THEN [current EXCEPT ![p.field] = Arr(Splice1(current[p.field].a, p.value.n))]
    ELSE current

\* updateUserContext works on a shallow copy of the object it read: splice
\* changes the list of the object read in place.  The object read, afterwards:
ReadObjectAfter(current, p) ==
    IF p.action = "remove" /\ current[p.field].t = "arr" /\ p.value.kind = "num"
    THEN [current EXCEPT ![p.field] = Arr(Splice1(current[p.field].a, p.value.n))]
    ELSE current

OpRecord(name, params, context, ok) ==
    [name |-> name, params |-> params, context |-> context,
     before |-> getUserContext(user_context), tableBefore |-> user_context, ok |-> ok]

\* executeTool, get_user_context
GetUserContext ==
    /\ turns < MaxOps
    /\ turns' = turns + 1
    /\ lastOp' = OpRecord("get", NoParams, getUserContext(user_context), TRUE)
    /\ UNCHANGED <<user_context, onboarding_state, conversations, insights, req,
                   lastPersisted, defaultContext, transactions, summary>>

\* saveUserContext(userId, context); ok: the store accepts the upsert
SaveUserContext(context, ok) ==
    /\ turns < MaxOps
    /\ turns' = turns + 1
    /\ user_context' = IF ok THEN saveUserContext(user_context, context) ELSE user_context
    /\ lastOp' = OpRecord("save", NoParams, context, ok)
    /\ UNCHANGED <<onboarding_state, conversations, insights, req, lastPersisted, defaultContext, transactions, summary>>

\* updateUserContext(userId, params): read, apply, save back
UpdateUserContext(p, ok) ==
    /\ turns < MaxOps
    /\ p.action = "append" /\ getUserContext(user_context)[p.field].t = "arr"
          => Len(getUserContext(user_context)[p.field].a) < MaxItems
    /\ turns' = turns + 1
    /\ LET currentContext == getUserContext(user_context)
           updatedContext == ApplyUpdate(currentContext, p)
       IN /\ user_context' = IF ok THEN saveUserContext(user_context, updatedContext)
                              ELSE user_context
          /\ defaultContext' = IF user_context = {} THEN ReadObjectAfter(defaultContext, p)
                                ELSE defaultContext
          /\ lastOp' = OpRecord("update", p, updatedContext, ok)
    /\ UNCHANGED <<onboarding_state, conversations, insights, req, lastPersisted, transactions, summary>>

InitContext ==
    /\ user_context \in
          { {},
            {[cols |-> [FinalContext("ann", "final") EXCEPT !["non_negotiables"] = Arr(StoredList)],
              onboarding_complete |-> TRUE]} }
    /\ onboarding_state = {}
    /\ conversations = <<>>
    /\ insights = <<>>
    /\ req = [r \in Reqs |-> IdleReq]
    /\ turns = 0
    /\ lastPersisted = {}
    /\ defaultContext = DEFAULT_USER_CONTEXT
    /\ lastOp = NoOp
    /\ transactions = <<>>
    /\ summary = NoSummary

NextContext ==
    \/ GetUserContext
    \/ \E c \in Contexts, ok \in BOOLEAN : SaveUserContext(c, ok)
    \/ \E p \in UpdateParams, ok \in BOOLEAN : UpdateUserContext(p, ok)

SpecContext == InitContext /\ [][NextContext]_vars

\* the default the documentation gives: the five lists empty, discretionary_pct
\* 35 with no per-category target, an empty narrative
DocumentedDefault ==
    [f \in Fields |->
        IF f \in ListFields THEN Arr(<<>>)
        ELSE IF f = "spending_targets" THEN Obj("pct35") ELSE Str("")]

\* C12 (Context default idempotence): the shared default object is never
\* changed, and every read for a user without a stored record returns the
\* documented default, whatever was called before.
C12_DefaultIdempotent ==
    /\ defaultContext = DocumentedDefault
    /\ user_context = {} => getUserContext(user_context) = DocumentedDefault
    /\ (lastOp.name = "get" /\ lastOp.tableBefore = {}) => lastOp.context = DocumentedDefault

\* a user without a record: a removal by index from a list of the default was
\* computed and its write refused, after other calls; reads still give the default
C12_Witness ==
    /\ turns = MaxOps /\ user_context = {}
    /\ lastOp.name = "update" /\ ~lastOp.ok /\ lastOp.tableBefore = {}
    /\ lastOp.params.action = "remove" /\ lastOp.params.value.kind = "num"
    /\ lastOp.params.field = "non_negotiables"
    /\ getUserContext(user_context) = DocumentedDefault

\* C13 (Round-trip): after a successful saveUserContext(u, c), getUserContext(u)
\* returns c field by field and the completion marker is true.
C13_RoundTrip ==
    (lastOp.name = "save" /\ lastOp.ok)
        => /\ getUserContext(user_context) = lastOp.context
           /\ user_context # {}
           /\ \A row \in user_context : row.onboarding_complete

\* a context with empty lists and an empty narrative was saved over a stored
\* record that differed from it in every field
C13_Witness ==
    /\ lastOp.name = "save" /\ lastOp.ok /\ lastOp.tableBefore # {}
    /\ lastOp.context = [DEFAULT_USER_CONTEXT EXCEPT !["seasonal_patterns"] = Arr(<<Elem("xmas")>>)]
    /\ \A f \in Fields \ {"deliberate_tradeoffs", "watch_patterns"} :
          lastOp.before[f] # lastOp.context[f]

\* the last call was an accepted updateUserContext with this action
Updated(action) ==
    lastOp.name = "update" /\ lastOp.ok /\ lastOp.params.action = action

\* the fields other than the updated one read as before
OtherFieldsUnchanged ==
    \A g \in Fields \ {lastOp.params.field} :
        getUserContext(user_context)[g] = lastOp.before[g]

\* the elements of l whose item is not item, in their order
RECURSIVE Without(_, _)
Without(l, item) ==
    IF l = <<>> THEN <<>>
    ELSE IF Head(l).item = item THEN Without(Tail(l), item)
    ELSE <<Head(l)>> \o Without(Tail(l), item)

\* C14 (Update policy, remove by item): remove with a value carrying an item
\* key leaves, of a list-valued field, exactly the elements whose item differs,
\* in their prior order, and changes no other field.
C14_RemoveByItem ==
    (/\ Updated("remove")
     /\ lastOp.params.value.kind = "elem" /\ lastOp.params.value.e.item # ""
     /\ lastOp.before[lastOp.params.field].t = "arr")
        => LET after == getUserContext(user_context)[lastOp.params.field]
               prior == lastOp.before[lastOp.params.field].a
               item == lastOp.params.value.e.item
           IN /\ after = Arr(Without(prior, item))
              /\ \A i \in 1..Len(after.a) : after.a[i].item # item
              /\ Len(after.a) = Cardinality({i \in 1..Len(prior) : prior[i].item # item})
              /\ OtherFieldsUnchanged

\* both elements with item coffee left the stored list, the three others stayed
C14_Witness ==
    /\ Updated("remove") /\ lastOp.params.field = "non_negotiables"
    /\ lastOp.params.value = ElemOf("coffee")
    /\ lastOp.before["non_negotiables"] = Arr(StoredList)
    /\ getUserContext(user_context)["non_negotiables"] = Arr(<<Elem("sport"), NoItem, Elem("tea")>>)

C16_NoOpOnNonList ==
    (/\ lastOp.name = "update" /\ lastOp.ok
     /\ lastOp.params.action \in {"append", "remove"}
     /\ lastOp.params.field \in {"spending_targets", "context_narrative"}
     /\ lastOp.before[lastOp.params.field].t # "arr")
        => user_context = lastOp.tableBefore

(***************************************************************************)
(* Specification of the Chat Agent's conversation log: an onboarded user   *)
(* chats from two sessions, continuing the stored conversation or starting *)
(* a new one, whose insert the store may refuse.                           *)
(***************************************************************************)
InitChat ==
    /\ user_context = {[cols |-> FinalContext("ann", "final"), onboarding_complete |-> TRUE]}
    /\ onboarding_state = {OnboardedRow}
    /\ conversations = <<[agent_type |-> "chat", messages |-> <<"user", "assistant">>]>>
    /\ insights = <<>>
    /\ req = [r \in Reqs |-> IdleReq]
    /\ turns = 0
    /\ lastPersisted = {OnboardedRow}
    /\ defaultContext = DEFAULT_USER_CONTEXT
    /\ lastOp = NoOp
    /\ transactions = <<>>
    /\ summary = NoSummary

NextChat ==
    \E r \in Reqs :
        \/ \E c \in 0..1 : Start(r, <<"h","i">>, c)
        \/ OrchReadContext(r)
        \/ OrchReadOnboarding(r)
        \/ ChatLoadContext(r)
        \/ Conversation(r)
        \/ ConversationInsertFails(r)
        \/ ModelToolUse(r, <<get_transactions>>)
        \/ \E ok \in BOOLEAN : ToolQuery(r, 1, ok)
        \/ \E hasText \in BOOLEAN : ModelFinal(r, hasText)
        \/ SaveUserMessage(r)
        \/ SaveAssistantMessage(r)

SpecChat == InitChat /\ [][NextChat]_vars

\* C17: a completed Chat Agent turn has a conversation, tagged chat and newly
\* created when the request named none, whose id it returns, and has stored
\* the user message and the final text there.
C17_ChatTurnPersisted ==
    \A r \in Reqs :
        (req[r].pc = "done" /\ req[r].route = "chat")
            => /\ req[r].outConversationId \in 1..Len(conversations)
               /\ req[r].conversationId = 0
                    => /\ req[r].outConversationId > 1
                       /\ conversations[req[r].outConversationId].agent_type = "chat"
               /\ req[r].appended = (IF req[r].hasText THEN 2 ELSE 1)

(***************************************************************************)
(* Specification of the Insight Agent: an onboarded user asks for the      *)
(* status from two sessions; the model returns texts with keywords of      *)
(* none, one or two priority buckets; the store may refuse the insert.     *)
(***************************************************************************)
PriorityTexts ==
    { <<"A","l","e","r","t",":"," ","w","a","r","n","i","n","g">>,
      <<"w","a","r","n","i","n","g"," ","p","a","t","t","e","r","n">>,
      <<"n","o","t","i","c","e","d"," ","a","l","l"," ","g","o","o","d">>,
      <<"a","l","l"," ","g","o","o","d",","," ","e","x","c","e","e","d","e","d">>,
      <<"O","n"," ","t","r","a","c","k">>,
      <<"s","t","e","a","d","y">> }

NextInsight ==
    \E r \in Reqs :
        \/ \E c \in 0..1 : Start(r, <<"M","y"," ","S","T","A","T","U","S">>, c)
        \/ OrchReadContext(r)
        \/ OrchReadOnboarding(r)
        \/ \E text \in PriorityTexts : InsightRun(r, text)
        \/ \E text \in PriorityTexts : InsightStoreFails(r, text)
        \/ InsightThrows(r)

SpecInsight == InitChat /\ [][NextInsight]_vars

Priorities == {"alert", "warning", "watch", "observation", "affirmation"}

\* C19 (Insight single-output invariant): an invocation of the Insight Agent
\* that returns has added exactly one insight record, holding the returned
\* text, a priority of the five and the data snapshot; it ran no tool loop.
C19_InsightSingleOutput ==
    [][\A r \in Reqs :
          (req[r].pc = "insight" /\ req'[r].pc = "done")
            => /\ Len(insights') = Len(insights) + 1
               /\ SubSeq(insights', 1, Len(insights)) = insights
               /\ insights'[Len(insights')].content = req'[r].response
               /\ insights'[Len(insights')].priority \in Priorities
               /\ insights'[Len(insights')].data_snapshot = "snapshot"
               /\ req'[r].calls = <<>> /\ ~req'[r].looped]_vars

\* keyword k occurs in the text, letters compared without case
OccursIn(k, text) ==
    \E i \in 1..Len(text) :
        /\ i + Len(k) - 1 <= Len(text)
        /\ \A j \in 1..Len(k) :
              LET c == text[i + j - 1]
              IN k[j] = (IF c \in DOMAIN UpperToLower THEN UpperToLower[c] ELSE c)

\* the buckets that have keywords, in the fixed priority order
KeywordBuckets ==
    << [priority |-> "alert",
        keywords |-> {<<"o","v","e","r"," ","b","u","d","g","e","t">>, <<"e","x","c","e","e","d","e","d">>, <<"a","l","e","r","t">>, <<"c","o","n","c","e","r","n","i","n","g">>}],
       [priority |-> "warning",
        keywords |-> {<<"o","n"," ","p","a","c","e"," ","t","o">>, <<"h","e","a","d","i","n","g"," ","t","o","w","a","r","d","s">>, <<"w","a","r","n","i","n","g">>, <<"w","a","t","c","h"," ","o","u","t">>}],
       [priority |-> "watch",
        keywords |-> {<<"p","a","t","t","e","r","n">>, <<"n","o","t","i","c","e","d">>}],
       [priority |-> "affirmation",
        keywords |-> {<<"o","n"," ","t","r","a","c","k">>, <<"l","o","o","k","i","n","g"," ","g","o","o","d">>, <<"w","e","l","l"," ","d","o","n","e">>, <<"a","l","l"," ","g","o","o","d">>}] >>

Matching(text) ==
    {b \in 1..Len(KeywordBuckets) : \E k \in KeywordBuckets[b].keywords : OccursIn(k, text)}

\* C20 (Insight priority classification): the priority stored with a text is
\* that of the first bucket in the order alert, warning, watch, affirmation
\* with a keyword in the lower-cased text, and observation when none has one.
C20_InsightPriority ==
    \A i \in 1..Len(insights) :
        LET hits == Matching(insights[i].content)
        IN insights[i].priority =
              (IF hits = {} THEN "observation"
               ELSE KeywordBuckets[CHOOSE b \in hits : \A c \in hits : b <= c].priority)

\* a text with an affirmation keyword before an alert keyword was stored as an
\* alert, and one with a capital and keywords of alert and warning too
C20_Witness ==
    /\ Len(insights) = 2
    /\ insights[1].content = <<"a","l","l"," ","g","o","o","d",","," ","e","x","c","e","e","d","e","d">>
    /\ insights[1].priority = "alert"
    /\ insights[2].content = <<"A","l","e","r","t",":"," ","w","a","r","n","i","n","g">>
    /\ insights[2].priority = "alert"

\* C21 (Insight failure): when the model call of the Insight Agent throws, the
\* invocation ends as a failure, returns no text, and the stored insight
\* records are the ones stored before.
C21_InsightFailureStoresNothing ==
    [][\A r \in Reqs :
          (req[r].pc = "insight" /\ req'[r].pc = "failed")
            => /\ insights' = insights
               /\ req'[r].response = <<>>
               /\ req'[r].route = "insight"]_vars

\* one invocation stored an insight and returned, the other failed: the
\* one record is all there is
C21_Witness ==
    /\ req[1].pc = "done" /\ req[1].route = "insight" /\ req[1].response # <<>>
    /\ req[2].pc = "failed" /\ req[2].route = "insight"
    /\ Len(insights) = 1 /\ insights[1].content = req[1].response

(***************************************************************************)
(* Specification of the tool loops of the Chat and the Onboarding Agent,   *)
(* for a new user and for an onboarded one.  Session 1 is answered by a    *)
(* model that requests a tool in every response, session 2 by a model that *)
(* may also answer with a final response.  Model calls and store calls     *)
(* return.                                                                 *)
(***************************************************************************)
InitLoop ==
    /\ \/ user_context = {} /\ onboarding_state = {} /\ lastPersisted = {}
       \/ /\ user_context = {[cols |-> FinalContext("ann", "final"), onboarding_complete |-> TRUE]}
          /\ onboarding_state = {OnboardedRow}
          /\ lastPersisted = {OnboardedRow}
    /\ conversations = <<[agent_type |-> "chat", messages |-> <<"user", "assistant">>]>>
    /\ insights = <<>>
    /\ req = [r \in Reqs |-> IdleReq]
    /\ turns = 0
    /\ defaultContext = DEFAULT_USER_CONTEXT
    /\ lastOp = NoOp
    /\ transactions = <<>>
    /\ summary = NoSummary

\* the tool_use blocks of a response
LoopResponses ==
    { <<get_transactions, get_budget>>,
      <<transition_phase("complete", EmptyObject, "")>> }

ModelRequestsTools(r) == \E tools \in LoopResponses : ModelToolUse(r, tools)

\* a store call of a tool returns
ToolReturns(r) ==
    \E i \in 1..MaxTools :
        \/ ToolWriteOnboarding(r, i)
        \/ \E ok \in BOOLEAN : ToolQuery(r, i, ok)

\* the steps of a turn up to its first model call
TurnBegins(r) ==
    \/ OrchReadContext(r)
    \/ OrchReadOnboarding(r)
    \/ OnboardingLoadState(r)
    \/ ChatLoadContext(r)
    \/ Conversation(r)

\* the steps of a turn after the loop
TurnEnds(r) ==
    \/ SaveUserMessage(r)
    \/ SaveAssistantMessage(r)
    \/ OrchSaveContext(r)

NextLoop ==
    \/ \E r \in Reqs : Start(r, <<"h","i">>, 1)
    \/ \E r \in Reqs : TurnBegins(r)
    \/ \E r \in Reqs : ModelRequestsTools(r)
    \/ \E r \in Reqs : ToolReturns(r)
    \/ \E hasText \in BOOLEAN : ModelFinal(2, hasText)
    \/ \E r \in Reqs : TurnEnds(r)

SpecLoop ==
    /\ InitLoop /\ [][NextLoop]_vars
    /\ \A r \in Reqs :
          /\ WF_vars(TurnBegins(r))
          /\ WF_vars(ModelRequestsTools(r) \/ (r = 2 /\ \E hasText \in BOOLEAN : ModelFinal(2, hasText)))
          /\ WF_vars(ToolReturns(r))
          /\ WF_vars(TurnEnds(r))

\* the turn of request r is in its tool loop
LoopRunning(r) == req[r].pc \in {"model", "tools"}

\* the loop is left exactly by a response without tool calls
C22_ExitOnPlainResponse ==
    [][\A r \in Reqs :
          /\ (LoopRunning(r) /\ ~AtModel(r)) => req'[r].pc = "tools"
          /\ (AtModel(r) /\ req'[r] # req[r])
                => /\ req'[r].pc = (IF req'[r].calls = <<>> THEN "save_user" ELSE "tools")
                   /\ req'[r].pc = "tools" => req'[r].looped]_vars

\* a turn whose model gave a final response returns
C22_PlainResponseReturns ==
    \A r \in Reqs : (req[r].pc = "save_user") ~> (req[r].pc = "done")

\* the turn of session 1, once in the loop, is in it for ever, and the model
\* is invoked again and again
C22_UncooperativeModelRunsForever ==
    /\ [](LoopRunning(1) => [](LoopRunning(1)))
    /\ (<>[](~LoopRunning(1))) \/ ([]<><<ModelRequestsTools(1)>>_vars)

\* C22 (Tool-loop termination): the tool loops of the Chat and Onboarding
\* Agents are left exactly when a model response requests no tool call; a turn
\* whose model gives such a response terminates and returns; the loop has no
\* iteration cap, so a turn whose model requests a tool in every response
\* stays in the loop for ever.
C22_ToolLoopTermination ==
    /\ C22_ExitOnPlainResponse
    /\ C22_PlainResponseReturns
    /\ C22_UncooperativeModelRunsForever

\* session 1 is in a later iteration of the Onboarding Agent's loop (an
\* earlier one moved the phase), session 2 has left its loop after iterating
C22_Witness ==
    /\ req[1].route = "onboarding" /\ req[1].pc = "tools"
    /\ req[1].state.phase = "complete"
    /\ req[1].calls = <<Executed(get_transactions), Executed(get_budget)>>
    /\ req[2].pc = "save_user" /\ req[2].looped

(***************************************************************************)
(* Failed tool calls, checked under SpecLoop.                              *)
(***************************************************************************)
\* call i of request r has returned an error object
FailedCall(r, i) ==
    /\ req[r].pc = "tools" /\ i \in 1..Len(req[r].calls)
    /\ req[r].calls[i].pc = "done" /\ req[r].calls[i].error # ""

\* a refused query and an unknown tool name give an error object; the turn goes on
C23_FailureIsAResult ==
    /\ [](\A r \in Reqs : \A i \in 1..Len(req[r].calls) :
            LET call == req[r].calls[i]
            IN /\ (call.tool.name \in TransactionTools /\ call.pc = "done")
                      => call.error = (IF call.ok THEN "" ELSE "store error")
               /\ (call.tool.name \notin ExecuteTools
                      /\ ~(req[r].route = "onboarding"
                           /\ call.tool.name \in {"transition_phase", "complete_onboarding"}))
                      => call.pc = "done" /\ call.error = "Unknown tool")
    /\ [][\A r \in Reqs : \A i \in 1..MaxTools :
             /\ (~FailedCall(r, i) /\ FailedCall(r, i)')
                    => req'[r].pc = "tools"
             /\ (FailedCall(r, i) /\ ~AtModel(r))
                    => /\ req'[r].pc = "tools"
                       /\ req'[r].calls[i] = req[r].calls[i]
                       /\ Len(req'[r].calls) = Len(req[r].calls)
             /\ (FailedCall(r, i) /\ AtModel(r) /\ req'[r] # req[r])
                    => /\ req'[r].pc \in {"tools", "save_user"}
                       /\ Len(req'[r].toolResults) = Len(req[r].calls)
                       /\ req'[r].toolResults[i].error = req[r].calls[i].error]_vars

\* the model is invoked again with the error among the tool results
C23_LoopContinues ==
    \A r \in Reqs : \A i \in 1..MaxTools :
        FailedCall(r, i) ~> (/\ req[r].pc \in {"tools", "save_user"}
                             /\ i \in 1..Len(req[r].toolResults)
                             /\ req[r].toolResults[i].error # "")

\* C23: a store failure in getTransactions, getSpendingSummary or
\* getRecentActivity and an unknown tool name give an {error: message} value
\* as the result of the call; the turn is not aborted, the call is not made
\* again, and the next model invocation receives the error as the tool's result.
C23_FailedToolCallIsSurfaced ==
    /\ C23_FailureIsAResult
    /\ C23_LoopContinues

\* the Onboarding Agent's model has been invoked again after a refused query
\* and an unknown tool name, in one session, and the other session's turn,
\* which met the same two failures, has left the loop with a final response
C23_Witness ==
    /\ req[1].route = "onboarding" /\ req[1].pc = "tools"
    /\ req[1].toolResults = <<[error |-> "store error"], [error |-> "Unknown tool"]>>
    /\ req[2].route = "onboarding" /\ req[2].pc = "save_user"
    /\ req[2].toolResults = req[1].toolResults

(***************************************************************************)
(* getSpendingSummary.  Amounts are in cents, so that the rounding of the  *)
(* totals to two decimals changes nothing; a percentage is held in tenths  *)
(* of a percent, the unit it is rounded to.  The text "" stands for a null *)
(* (or empty) category, classification or merchant.                        *)
(***************************************************************************)
\* rows of the transactions table over a behaviour
MaxRows == 3

\* Math.round(n / d) for d > 0 and n >= 0
RoundDiv(n, d) == (2 * n + d) \div (2 * d)

\* the key of a row under group_by
GroupKey(t, group_by) ==
    IF group_by = "category"
    THEN (IF t.category = "" THEN "Uncategorized" ELSE t.category)
    ELSE IF group_by = "classification"
    THEN (IF t.classification = "" THEN "Unknown" ELSE t.classification)
    ELSE (IF t.merchant_normalised = "" THEN "Unknown" ELSE t.merchant_normalised)

\* faulty variant of SpendingRows: income rows are not left out
SpendingRows_WithIncome(table, start_date, end_date) ==
    SelectSeq(table, LAMBDA t : t.date >= start_date /\ t.date <= end_date /\ t.amount # 0)

\* the query: the user's rows in the date range with amount > 0
SpendingRows(table, start_date, end_date) ==
    SelectSeq(table, LAMBDA t : t.date >= start_date /\ t.date <= end_date /\ t.amount > 0)

\* the forEach: summary and grandTotal after the rows; keys holds the keys of
\* summary in insertion order
RECURSIVE Aggregate(_, _, _)
Aggregate(rows, group_by, acc) ==
    IF rows = <<>> THEN acc
    ELSE LET t == Head(rows)
             key == GroupKey(t, group_by)
             old == IF key \in DOMAIN acc.summary THEN acc.summary[key]
                    ELSE [total |-> 0, count |-> 0]
             new == [total |-> old.total + t.amount, count |-> old.count + 1]
         IN Aggregate(Tail(rows), group_by,
                      [summary |-> [k \in DOMAIN acc.summary \cup {key} |->
                                        IF k = key THEN new ELSE acc.summary[k]],
                       keys |-> IF key \in DOMAIN acc.summary THEN acc.keys
                                ELSE Append(acc.keys, key),
                       grandTotal |-> acc.grandTotal + t.amount])

\* Array.prototype.sort with (a, b) => b.total - a.total: stable, descending
RECURSIVE SortByTotal(_)
SortByTotal(entries) ==
    IF entries = <<>> THEN <<>>
    ELSE LET sorted == SortByTotal(SubSeq(entries, 1, Len(entries) - 1))
             e == entries[Len(entries)]
             before == SelectSeq(sorted, LAMBDA x : x.total >= e.total)
             after == SelectSeq(sorted, LAMBDA x : x.total < e.total)
         IN before \o <<e>> \o after

\* what getSpendingSummary returns; ok: the store answers the query
getSpendingSummary(table, start_date, end_date, group_by, ok) ==
    IF ~ok
    THEN [NoSummary EXCEPT !.called = TRUE, !.start_date = start_date, !.end_date = end_date,
                           !.group_by = group_by, !.error = "store error"]
    ELSE LET agg == Aggregate(SpendingRows(table, start_date, end_date), group_by,
                              [summary |-> [k \in {} |-> 0], keys |-> <<>>, grandTotal |-> 0])
             entry(name) ==
                 [name |-> name,
                  total |-> agg.summary[name].total,
                  count |-> agg.summary[name].count,
                  percentage |-> IF agg.grandTotal > 0
                                 THEN RoundDiv(agg.summary[name].total * 1000, agg.grandTotal)
                                 ELSE 0]
         IN [called |-> TRUE, start_date |-> start_date, end_date |-> end_date,
             group_by |-> group_by, error |-> "",
             total |-> agg.grandTotal,
             breakdown |-> SortByTotal([i \in 1..Len(agg.keys) |-> entry(agg.keys[i])])]

\* rows a user can have
Row(date, amount, category, classification, merchant) ==
    [date |-> date, amount |-> amount, category |-> category,
     classification |-> classification, merchant_normalised |-> merchant]
TransactionRows ==
    { Row(1, 5000, "Groceries", "Essential", "Coles"),
      Row(1, 3000, "Groceries", "Essential", ""),
      Row(2, -100000, "", "", ""),
      Row(2, 3000, "Fun", "Discretionary", "Cinema"),
      Row(2, 3000, "", "", "Coles"),
      Row(2, 0, "Fun", "Discretionary", "Cinema"),
      Row(3, 2000, "Fun", "Discretionary", "Cinema") }

RECURSIVE Tables(_)
Tables(n) ==
    IF n = 0 THEN {<<>>}
    ELSE LET shorter == Tables(n - 1)
         IN shorter \cup {Append(q, t) : q \in {x \in shorter : Len(x) = n - 1},
                                         t \in TransactionRows}

GroupBys == {"category", "classification", "merchant"}
DateRanges == {<<1, 2>>, <<2, 2>>, <<1, 3>>}

\* executeTool, get_spending_summary
GetSpendingSummary(range, group_by, ok) ==
    /\ turns < MaxOps
    /\ turns' = turns + 1
    /\ summary' = getSpendingSummary(transactions, range[1], range[2], group_by, ok)
    /\ UNCHANGED <<user_context, onboarding_state, conversations, insights, req,
                   lastPersisted, defaultContext, lastOp, transactions>>

InitSummary ==
    /\ user_context = {}
    /\ onboarding_state = {}
    /\ conversations = <<>>
    /\ insights = <<>>
    /\ req = [r \in Reqs |-> IdleReq]
    /\ turns = 0
    /\ lastPersisted = {}
    /\ defaultContext = DEFAULT_USER_CONTEXT
    /\ lastOp = NoOp
    /\ transactions \in Tables(MaxRows)
    /\ summary = NoSummary

NextSummary ==
    \E range \in DateRanges, group_by \in GroupBys, ok \in BOOLEAN :
        GetSpendingSummary(range, group_by, ok)

SpecSummary == InitSummary /\ [][NextSummary]_vars

(***************************************************************************)
(* Properties of getSpendingSummary, checked under SpecSummary.            *)
(***************************************************************************)
\* the positions of the rows the last call had to sum: in the range, amount > 0
Spending ==
    {i \in 1..Len(transactions) :
        /\ transactions[i].date >= summary.start_date
        /\ transactions[i].date <= summary.end_date
        /\ transactions[i].amount > 0}

\* the group of a row: its key, a null key replaced by the placeholder
GroupOf(i) ==
    LET t == transactions[i]
        k == IF summary.group_by = "category" THEN t.category
             ELSE IF summary.group_by = "classification" THEN t.classification
             ELSE t.merchant_normalised
    IN IF k # "" THEN k
       ELSE IF summary.group_by = "category" THEN "Uncategorized" ELSE "Unknown"

RECURSIVE SumAmounts(_)
SumAmounts(S) ==
    IF S = {} THEN 0
    ELSE LET i == CHOOSE j \in S : TRUE
         IN transactions[i].amount + SumAmounts(S \ {i})

RECURSIVE SumPercentages(_)
SumPercentages(entries) ==
    IF entries = <<>> THEN 0
    ELSE Head(entries).percentage + SumPercentages(Tail(entries))

Answered == summary.called /\ summary.error = ""

Abs(x) == IF x < 0 THEN -x ELSE x

\* each percentage is the nearest tenth of a per cent to total / grand total
PercentagesAreRatios ==
    \A i \in 1..Len(summary.breakdown) :
        LET e == summary.breakdown[i]
        IN IF summary.total > 0
           THEN 2 * Abs(e.percentage * summary.total - e.total * 1000) <= summary.total
           ELSE e.percentage = 0

\* total, groups and order of the last answer
TotalsAndOrder ==
    LET b == summary.breakdown
    IN /\ summary.total = SumAmounts(Spending)
       /\ {b[i].name : i \in 1..Len(b)} = {GroupOf(i) : i \in Spending}
       /\ \A i, j \in 1..Len(b) : i # j => b[i].name # b[j].name
       /\ \A i \in 1..Len(b) :
             LET group == {k \in Spending : GroupOf(k) = b[i].name}
             IN /\ b[i].total = SumAmounts(group)
                /\ b[i].count = Cardinality(group)
       /\ \A i \in 1..(Len(b) - 1) : b[i].total >= b[i + 1].total

\* C25 as stated (Spending summary correctness): total is the sum of the
\* strictly positive amounts in the range; each entry holds the sum and the
\* number of the positive rows of its group, a null key under the placeholder
\* name; entries are in descending order of total; each percentage is the
\* entry total over the grand total, to the one decimal it is reported with
\* (0 when the grand total is 0), and the percentages sum to 100 when the
\* total is positive.
C25_PercentagesSumTo100 ==
    Answered =>
        /\ TotalsAndOrder
        /\ PercentagesAreRatios
        /\ summary.total > 0 => SumPercentages(summary.breakdown) = 1000

\* C25 as amended: total, groups and order as stated; each percentage is the
\* entry total over the grand total rounded to one decimal (0 when the grand
\* total is 0), so the percentages sum to 100 up to 0.05 per entry.
C25_RoundedPercentages ==
    Answered =>
        /\ TotalsAndOrder
        /\ PercentagesAreRatios
        /\ summary.total > 0 =>
              2 * Abs(SumPercentages(summary.breakdown) - 1000) <= Len(summary.breakdown)

\* three categories, one of them null, with a third of the spending each:
\* 33.3 per cent each
C25_Witness ==
    /\ Answered /\ summary.group_by = "category"
    /\ summary.total = 9000
    /\ summary.breakdown =
          << [name |-> "Groceries", total |-> 3000, count |-> 1, percentage |-> 333],
             [name |-> "Fun", total |-> 3000, count |-> 1, percentage |-> 333],
             [name |-> "Uncategorized", total |-> 3000, count |-> 1, percentage |-> 333] >>


(***************************************************************************)
(* Specification of the interview of a new user held from two sessions:    *)
(* every model response carries at most one tool call, a phase transition, *)
(* the completion, or a context update.                                    *)
(***************************************************************************)
InterviewResponses ==
    { <<transition_phase("household", GatheredA, "who is in the household")>>,
      <<update_user_context("non_negotiables", "append", ElemOf("coffee"))>> }
      \cup { <<complete_onboarding(F)>> : F \in FinalInputs }

NextInterview ==
    \E r \in Reqs :
        \/ Start(r, <<"h","i">>, 0)
        \/ OrchReadContext(r)
        \/ OrchReadOnboarding(r)
        \/ OnboardingLoadState(r)
        \/ ChatLoadContext(r)
        \/ Conversation(r)
        \/ \E tools \in InterviewResponses : ModelToolUse(r, tools)
        \/ ToolWriteOnboarding(r, 1)
        \/ ToolReadContext(r, 1)
        \/ ToolWriteContext(r, 1)
        \/ ModelFinal(r, TRUE)
        \/ SaveUserMessage(r)
        \/ SaveAssistantMessage(r)
        \/ OrchSaveContext(r)

SpecInterview == Init /\ [][NextInterview]_vars

\* the completion marker of the user's context record
Marker == \E row \in user_context : row.onboarding_complete

\* the user has an OnboardingState record with a phase other than complete
ActiveOnboarding == \E row \in onboarding_state : row.phase # "complete"

\* the route orchestrate takes for message m when it reads the tables as they are
NextRoute(m) == RouteDecision(Marker, ActiveOnboarding, m)

\* needsOnboarding: the status check of the completion marker
needsOnboarding == ~Marker

\* a request has completed onboarding: the Router saved the context
Completed == \E r \in Reqs : req[r].pc = "done" /\ req[r].contextUpdated

\* the persisted state routes every message to chat or insight
Settled == \A m \in Messages : NextRoute(m) \in {"chat", "insight"}

\* C26: once a request has completed onboarding (phase complete persisted,
\* context saved with the marker true), every later message is routed to chat
\* or insight, also when another onboarding request was in flight at the
\* completion and persists its own state afterwards.
C26_NeverRoutedToOnboardingAgain ==
    [][(Completed /\ Settled) => Settled']_vars

\* C27: the completion marker is true only if the user has no OnboardingState
\* record with a phase other than complete; so needsOnboarding returns false
\* only when orchestrate would not dispatch the next message to the Onboarding
\* Agent; and no tool call of an onboarding turn (update_user_context
\* included) sets the marker.
C27_MarkerOnlyAfterCompletion ==
    /\ [](Marker => ~ActiveOnboarding)
    /\ [](~needsOnboarding => Settled)
    /\ [][\A r \in Reqs :
            (req[r].route = "onboarding" /\ req[r].pc = "tools" /\ req'[r].pc = "tools")
              => (Marker' = Marker)]_vars

\* the marker invariant alone
C27_MarkerInvariant == Marker => ~ActiveOnboarding


(***************************************************************************)
(* Specification of startOnboarding, called for a user in any persisted    *)
(* state: with or without a context record, with or without an             *)
(* OnboardingState at any phase.                                           *)
(***************************************************************************)
\* startOnboarding: the user's OnboardingState is deleted, then
\* orchestrate(userId, "hi") runs
StartOnboarding(r) ==
    /\ req[r].pc \in {"idle", "done", "failed"}
    /\ turns < MaxTurns
    /\ onboarding_state' = {}
    /\ lastPersisted' = {}
    /\ req' = [req EXCEPT ![r] = [IdleReq EXCEPT !.pc = "orch_context",
                                    !.userMessage = <<"h","i">>,
                                    !.conversationId = 0,
                                    !.entry = "startOnboarding"]]
    /\ turns' = turns + 1
    /\ UNCHANGED <<user_context, conversations, insights, defaultContext, lastOp, transactions, summary>>

InitStart ==
    /\ user_context \in {{}, {[cols |-> FinalContext("ann", "final"), onboarding_complete |-> TRUE]}}
    /\ onboarding_state \in
         {{}} \cup {{[phase |-> p, gathered_context |-> g, questions_asked |-> q]} :
                       p \in PhaseSet, g \in {EmptyObject, GatheredA},
                       q \in {<<>>, <<"who is in the household">>}}
    /\ conversations = <<>>
    /\ insights = <<>>
    /\ req = [r \in Reqs |-> IdleReq]
    /\ turns = 0
    /\ lastPersisted = onboarding_state
    /\ defaultContext = DEFAULT_USER_CONTEXT
    /\ lastOp = NoOp
    /\ transactions = <<>>
    /\ summary = NoSummary

NextStart ==
    \E r \in Reqs :
        \/ StartOnboarding(r)
        \/ OrchReadContext(r)
        \/ OrchReadOnboarding(r)
        \/ OnboardingLoadState(r)
        \/ ChatLoadContext(r)
        \/ Conversation(r)
        \/ ModelFinal(r, TRUE)
        \/ SaveUserMessage(r)
        \/ SaveAssistantMessage(r)

SpecStart == InitStart /\ [][NextStart]_vars

\* C30: the request startOnboarding makes is handled by the Onboarding Agent,
\* which starts at phase intro with empty gathered_context and empty
\* questions_asked, whatever the user's state was, a true completion marker
\* included.
C30_StartOnboardingStartsFresh ==
    \A r \in Reqs :
        (req[r].entry = "startOnboarding" /\ Routed(r)) =>
            /\ req[r].route = "onboarding"
            /\ req[r].pc = "conversation" =>
                  /\ req[r].state.phase = "intro"
                  /\ req[r].state.gatheredContext = EmptyObject
                  /\ req[r].state.questionsAsked = <<>>

\* the same for users whose completion marker is not set
C30_FreshForNewUsers ==
    \A r \in Reqs :
        (req[r].entry = "startOnboarding" /\ Routed(r) /\ ~Marker) =>
            /\ req[r].route = "onboarding"
            /\ req[r].pc = "conversation" =>
                  /\ req[r].state.phase = "intro"
                  /\ req[r].state.gatheredContext = EmptyObject
                  /\ req[r].state.questionsAsked = <<>>

====
